---- MODULE Spec2Model ----
(***************************************************************************)
(* NetamiTV-Bot: the rate-limited dispatcher (EmbedHandler.safe_send /     *)
(* safe_edit, ResponseHandler.safe_send / safe_edit) and the rate limit    *)
(* ledger (RateLimitManager) of src/cogs/normal.                           *)
(*                                                                         *)
(* SpecDispatch     one dispatch call at a time, the platform answering    *)
(*                  each attempt with any response of Responses.           *)
(* FairSpecDispatch SpecDispatch with the platform answering every attempt *)
(*                  and every sleep ending.                                *)
(* SpecLedger       RateLimitManager driven by send_*_embed, its periodic  *)
(*                  cleanup task and the passing of time.                  *)
(***************************************************************************)
EXTENDS Integers, Sequences, FiniteSets, TLC

VARIABLES
    \* ---- dispatcher: the frame of one safe_send / safe_edit call
    d_pc,            \* "idle", "while", "attempt", "final", "done"
    d_handler,       \* "EmbedHandler" or "ResponseHandler"
    d_op,            \* "send" or "edit"
    max_retries,     \* the local max_retries
    retry_attempts,  \* the local retry_attempts
    delay,           \* the local delay (seconds)
    stats,           \* EmbedHandler.stats
    d_outcome,       \* "pending", "returned", "raised", "none", "cancelled"
    d_raised,        \* the error that left the call, NoResp if none
    d_last,          \* the platform's answer to the latest attempt
    attempts,        \* invocations of channel.send / message.edit in this call
    last_sleep,      \* seconds of the latest asyncio.sleep of this call, -1 if none
    sleep_kind,      \* "none", "retry_after", "backoff", "grace"
    delay_at_sleep,  \* value of delay when the latest sleep began
    delays_used,     \* the backoff sleeps of this call, in order
    grace_sleeps,    \* the number of final grace sleeps of this call
    n_sleeps,        \* the number of asyncio.sleep calls of this call
    retried,         \* failures of this call that were retryable in kind
    calls,           \* dispatch calls started so far
    \* ---- ledger: RateLimitManager
    now,             \* time.time(), in ticks of 1/TicksPerSecond s
    user_requests,   \* user id -> sequence of timestamps (the keys present)
    channel_requests,\* channel id -> sequence of timestamps
    global_requests, \* sequence of timestamps
    blocked_users,   \* user id -> block start
    blocked_channels,\* channel id -> block start
    next_cleanup,    \* the time _cleanup_task wakes from its sleep
    sec_ticks,       \* one-second time steps taken so far
    l_last,          \* the latest is_rate_limited call and its result
    l_hit,           \* user id -> time of its latest call if that returned
                     \* "user_limit", else -1
    \* ---- temporary voice channels: TempVoice and the guild it serves
    tv_now,          \* datetime.now().timestamp(), in ticks of 1/TicksPerSecond s
    setup_channels,  \* ids of the create-channels
    temp_channels,   \* channel id -> owner id
    user_cooldowns,  \* member id -> time of the member's last creation
    v_exists,        \* ids of the guild's voice channels
    v_loc,           \* member id -> the voice channel the member is in, or NoChannel
    v_created,       \* channels created so far: <<[id, owner, at]>>
    v_frames,        \* the running on_voice_state_update invocations
    scan,            \* the check_empty_channels task: [pc, cur, rest, ended]
    v_audit,         \* channel id -> temp_channel_deleted events emitted for it
    v_deletes,       \* channel id -> platform delete calls issued for it
    v_removed,       \* members whose cooldown an administrator removed
    tv_last,         \* the latest cooldown decision of on_voice_state_update
    \* ---- tickets: TicketSystem, its config store and the ticket channels
    k_now,           \* time.time(), in ticks of 1/TicksPerSecond s
    active_tickets,  \* config["active_tickets"]: ticket id -> [user_id, claimed_by,
                     \* claimed_at (0 while unclaimed)]
    kstats,          \* config["statistics"]
    k_exists,        \* ids of the ticket channels on the platform
    k_views,         \* the TicketCloseConfirmation views opened so far
    k_frames,        \* the running confirm_close invocations
    k_audit,         \* ticket id -> ticket_closed events emitted for it
    last_save,       \* TicketConfig._last_save
    k_writes,        \* the config file: the writes made (how many, the last two
                     \* times), whether it exists, its content
    k_presses,       \* Confirm presses so far
    k_closed,        \* ticket id -> the confirmation that removed its entry
    k_last,          \* the actor the latest close_button press turned away, if any
    \* ---- the store files at start-up: ticket_config.json, temp_voice.json
    b_files,         \* store -> the file its constructor finds
    b_boot,          \* store -> what loading it came to
    \* ---- one actor at the ticket-creation button and at /tempchannel
    r_now,           \* time.time(), in ticks of 1/TicksPerSecond s
    rl_attempts,     \* RateLimiter.user_attempts[user_id]
    tc_until,        \* TempChannel._rate_limit_cooldown[user_id], 0 if unset
    r_frames,        \* the running ticket_button / tempchannel invocations
    r_passes,        \* handler -> the times its limiter check let the actor pass
    \* ---- the two periodic tasks: RateLimitManager._cleanup_task and
    \* ---- TempVoice.check_empty_channels
    p_pc,            \* task -> where its one coroutine stands
    p_live,          \* task -> iteration bodies in progress
    p_missed,        \* task -> periods that elapsed during the running body
    p_done,          \* task -> iterations that ended
    \* ---- one user at the ticket-creation button: ticket_button with
    \* ---- TicketSystem.create_ticket
    c_frames,        \* the running ticket_button invocations
    c_active,        \* the user's entries in config["active_tickets"]
    c_channels,      \* ticket channels created for the user
    c_presses,       \* presses so far
    \* ---- EmbedHandler.send_loading/success/error_embed with EmbedCache
    e_now,           \* time.time(), in ticks of 1/TicksPerSecond s
    e_cache,         \* EmbedCache.cache: key -> [embed, timestamp]
    e_sent,          \* the latest call and the embed it handed to safe_send
    e_sends,         \* calls so far
    \* ---- ReviewSystem: /review and the reviewers' reactions
    s_subs,          \* the submissions table, by review message
    s_used,          \* the users with a row in user_usage
    s_tasks,         \* the running _process_review_submission tasks
    s_handlers,      \* the running on_reaction_add invocations
    s_commands,      \* /review invocations so far
    \* ---- YouTubeNotifications.check_youtube_feed, one YouTube channel
    y_feed,          \* the video of the feed's first entry, 0 if none
    y_stale,         \* the videos published more than an hour ago
    y_latest,        \* config channels[channel_id]['latest_video_id']
    y_posted,        \* posted_videos
    y_poll,          \* the running iteration: its position and its video
    y_announced,     \* video -> notifications delivered for it
    y_failed,        \* the videos a notification of which failed
    y_polls          \* polls that read the feed so far

dvars == <<d_pc, d_handler, d_op, max_retries, retry_attempts, delay, stats,
           d_outcome, d_raised, d_last, attempts, last_sleep, sleep_kind,
           delay_at_sleep, delays_used, grace_sleeps, n_sleeps, retried, calls>>

lvars == <<now, user_requests, channel_requests, global_requests, blocked_users,
           blocked_channels, next_cleanup, sec_ticks, l_last, l_hit>>

tvars == <<tv_now, setup_channels, temp_channels, user_cooldowns, v_exists, v_loc,
           v_created, v_frames, scan, v_audit, v_deletes, v_removed, tv_last>>

kvars == <<k_now, active_tickets, kstats, k_exists, k_views, k_frames, k_audit,
           last_save, k_writes, k_presses, k_closed, k_last>>

bvars == <<b_files, b_boot>>

rvars == <<r_now, rl_attempts, tc_until, r_frames, r_passes>>

pvars == <<p_pc, p_live, p_missed, p_done>>

cvars == <<c_frames, c_active, c_channels, c_presses>>

\* the periodic tasks and the cogs modelled after them
evars == <<e_now, e_cache, e_sent, e_sends>>

svars == <<s_subs, s_used, s_tasks, s_handlers, s_commands>>

yvars == <<y_feed, y_stale, y_latest, y_posted, y_poll, y_announced, y_failed,
           y_polls>>

morevars == <<pvars, cvars, evars, svars, yvars>>

\* the state of the cogs other than the dispatcher and the ledger
cogvars == <<tvars, kvars, bvars, rvars, morevars>>

\* what the temporary voice channels leave alone
outside_tv == <<dvars, lvars, kvars, bvars, rvars, morevars>>

\* what the tickets leave alone
outside_tk == <<dvars, lvars, tvars, bvars, rvars, morevars>>

\* the parts modelled before the periodic tasks
basevars == <<dvars, lvars, tvars, kvars, bvars, rvars>>

\* what the periodic tasks leave alone
outside_p == <<basevars, cvars, evars, svars, yvars>>

\* what the embed cache leaves alone
outside_e == <<basevars, pvars, cvars, svars, yvars>>

\* what the review system leaves alone
outside_s == <<basevars, pvars, cvars, evars, yvars>>

\* what the feed check leaves alone
outside_y == <<basevars, pvars, cvars, evars, svars>>

\* what ticket creation leaves alone (it records in RateLimiter.user_attempts)
outside_c == <<dvars, lvars, tvars, kvars, bvars, pvars, evars, svars, yvars,
               r_now, tc_until, r_frames, r_passes>>

vars == <<dvars, lvars, cogvars>>

Min(a, b) == IF a <= b THEN a ELSE b

Max(a, b) == IF a >= b THEN a ELSE b

(***************************************************************************)
(* Dispatcher                                                              *)
(***************************************************************************)

\* retry_settings of the default config
cfg_max_retries == 5

initial_delay == 1

max_delay == 60

exponential_base == 2

\* the fixed sleep before the final attempt
grace_period == 10

\* ResponseHandler's defaults
rh_max_retries == 5

rh_initial_delay == 1

rh_base == 2

\* the largest max_retries argument a caller passes
MaxRetriesArg == 8

\* dispatch calls per behaviour
MaxCalls == 1

\* max_retries=None: the argument left out
None == -1

NoHint == -1

\* Retry-After values the platform sends (seconds)
Hints == {1, 45}

Statuses == {400, 401, 403, 404, 429, 500, 503}

OkResp == [kind |-> "ok", status |-> 200, hint |-> NoHint]

\* discord.HTTPException with e.status; discord.Forbidden is the one of status 403
HttpResp(s, h) == [kind |-> "http", status |-> s, hint |-> h]

\* any other exception raised by the platform call
ExcResp == [kind |-> "exc", status |-> 0, hint |-> NoHint]

NoResp == [kind |-> "no", status |-> 0, hint |-> NoHint]

Responses ==
    {OkResp, ExcResp}
    \cup {HttpResp(s, NoHint) : s \in Statuses}
    \cup {HttpResp(429, h) : h \in Hints}

stats0 == [messages_sent |-> 0, messages_edited |-> 0, rate_limit_hits |-> 0,
           cache_hits |-> 0, cache_misses |-> 0, errors |-> 0]

\* the step without the clamp to max_delay
nextDelay_NoCap(d) == d * exponential_base

\* delay = min(delay * exponential_base, max_delay)
nextDelay(d) == Min(d * exponential_base, max_delay)

\* ResponseHandler: delay *= 2
rhNextDelay(d) == d * rh_base

\* the wait taken as the larger of the header and the local delay
RetryAfter_Max(resp, d) == IF resp.hint = NoHint THEN d ELSE Max(resp.hint, d)

\* the header not read: the local delay is slept
RetryAfter_IgnoreHint(resp, d) == d

\* float(e.response.headers.get('Retry-After', delay))
RetryAfter(resp, d) == IF resp.hint = NoHint THEN d ELSE resp.hint

\* the while test off by one
LoopCond_Le(ra, mr) == ra <= mr

\* while retry_attempts < max_retries
LoopCond(ra, mr) == ra < mr

\* e.status in [400, 403, 404]
IsClientError(s) == s \in {400, 403, 404}

\* the server-error test catching every error status
IsServerError_400(s) == s >= 400

\* e.status >= 500
IsServerError(s) == s >= 500

\* an unexpected exception never retried
CanRetryUnexpected_Never(ra, mr) == FALSE

\* if retry_attempts < max_retries - 1 (the generic except clause)
CanRetryUnexpected(ra, mr) == ra < mr - 1

\* a 429 not counted as a retry
AttemptsAfter429_NoCount(ra) == ra

\* retry_attempts += 1 after the sleep of a 429
AttemptsAfter429(ra) == ra + 1

\* the final attempt's error re-raised
FinalFailureOutcome_Raise(resp) == "raised"

\* what the final attempt's except clause gives the caller
FinalFailureOutcome(resp) == "none"

\* self.stats[key] += 1
Bump(s, key) == [s EXCEPT ![key] = @ + 1]

\* safe_edit counting its successes as messages_sent
SuccessKey_Copy(op) == "messages_sent"

\* which counter a success of safe_send / safe_edit increments
SuccessKey(op) == IF op = "send" THEN "messages_sent" ELSE "messages_edited"

\* a failure whose kind the dispatcher retries: 429, 5xx, unexpected exception
RetryableKind(h, resp) ==
    IF h = "EmbedHandler"
    THEN \/ resp.kind = "exc"
         \/ resp.kind = "http" /\ (resp.status = 429 \/ IsServerError(resp.status))
    ELSE resp.kind = "http" /\ resp.status = 429

DInit ==
    /\ d_pc = "idle"
    /\ d_handler = "EmbedHandler"
    /\ d_op = "send"
    /\ max_retries = 0
    /\ retry_attempts = 0
    /\ delay = 0
    /\ stats = stats0
    /\ d_outcome = "pending"
    /\ d_raised = NoResp
    /\ d_last = NoResp
    /\ attempts = 0
    /\ last_sleep = -1
    /\ sleep_kind = "none"
    /\ delay_at_sleep = 0
    /\ delays_used = <<>>
    /\ grace_sleeps = 0
    /\ n_sleeps = 0
    /\ retried = 0
    /\ calls = 0

\* safe_send / safe_edit up to the first test of the while condition
SafeCall(h, op, mr) ==
    /\ d_pc \in {"idle", "done"}
    /\ calls < MaxCalls
    /\ calls' = calls + 1
    /\ d_handler' = h
    /\ d_op' = op
    /\ max_retries' = IF h = "EmbedHandler"
                      THEN (IF mr = None THEN cfg_max_retries ELSE mr)
                      ELSE (IF mr = None THEN rh_max_retries ELSE mr)
    /\ retry_attempts' = 0
    /\ delay' = IF h = "EmbedHandler" THEN initial_delay ELSE rh_initial_delay
    /\ d_pc' = "while"
    /\ d_outcome' = "pending"
    /\ d_raised' = NoResp
    /\ d_last' = NoResp
    /\ attempts' = 0
    /\ last_sleep' = -1
    /\ sleep_kind' = "none"
    /\ delay_at_sleep' = 0
    /\ delays_used' = <<>>
    /\ grace_sleeps' = 0
    /\ n_sleeps' = 0
    /\ retried' = 0
    /\ UNCHANGED <<stats, lvars, cogvars>>

\* the while condition holds: the body's channel.send / message.edit is awaited
EnterAttempt ==
    /\ d_pc = "while"
    /\ LoopCond(retry_attempts, max_retries)
    /\ d_pc' = "attempt"
    /\ UNCHANGED <<d_handler, d_op, max_retries, retry_attempts, delay, stats,
                   d_outcome, d_raised, d_last, attempts, last_sleep, sleep_kind,
                   delay_at_sleep, delays_used, grace_sleeps, n_sleeps, retried,
                   calls, lvars, cogvars>>

\* the while condition fails: asyncio.sleep(10), then the final attempt is awaited
GraceSleep ==
    /\ d_pc = "while"
    /\ ~LoopCond(retry_attempts, max_retries)
    /\ d_pc' = "final"
    /\ last_sleep' = grace_period
    /\ sleep_kind' = "grace"
    /\ delay_at_sleep' = delay
    /\ grace_sleeps' = grace_sleeps + 1
    /\ n_sleeps' = n_sleeps + 1
    /\ UNCHANGED <<d_handler, d_op, max_retries, retry_attempts, delay, stats,
                   d_outcome, d_raised, d_last, attempts, delays_used, retried,
                   calls, lvars, cogvars>>

\* the call ends: a value is returned or an error is raised
Finish(outcome, err) ==
    /\ d_pc' = "done"
    /\ d_outcome' = outcome
    /\ d_raised' = err

\* the call sleeps s seconds and goes back to the while test
SleepAndLoop(s, kind) ==
    /\ d_pc' = "while"
    /\ last_sleep' = s
    /\ sleep_kind' = kind
    /\ delay_at_sleep' = delay
    /\ n_sleeps' = n_sleeps + 1
    /\ UNCHANGED <<d_outcome, d_raised>>

NoSleep == UNCHANGED <<last_sleep, sleep_kind, delay_at_sleep, n_sleeps>>

\* EmbedHandler.safe_send / safe_edit: one pass of the while body
EmbedAttempt(resp) ==
    /\ d_pc = "attempt"
    /\ d_handler = "EmbedHandler"
    /\ attempts' = attempts + 1
    /\ d_last' = resp
    /\ retried' = IF RetryableKind(d_handler, resp) THEN retried + 1 ELSE retried
    /\ UNCHANGED <<d_handler, d_op, max_retries, grace_sleeps, calls, lvars, cogvars>>
    /\ CASE resp.kind = "ok" ->
              /\ stats' = Bump(stats, SuccessKey(d_op))
              /\ Finish("returned", NoResp)
              /\ NoSleep
              /\ UNCHANGED <<retry_attempts, delay, delays_used>>
         [] resp.kind = "http" /\ resp.status = 429 ->
              /\ SleepAndLoop(RetryAfter(resp, delay), "retry_after")
              /\ retry_attempts' = AttemptsAfter429(retry_attempts)
              /\ UNCHANGED <<stats, delay, delays_used>>
         [] resp.kind = "http" /\ resp.status # 429 /\ IsClientError(resp.status) ->
              /\ stats' = Bump(stats, "errors")
              /\ Finish("raised", resp)
              /\ NoSleep
              /\ UNCHANGED <<retry_attempts, delay, delays_used>>
         [] resp.kind = "http" /\ resp.status # 429 /\ ~IsClientError(resp.status)
                /\ IsServerError(resp.status) ->
              /\ SleepAndLoop(delay, "backoff")
              /\ retry_attempts' = retry_attempts + 1
              /\ delay' = nextDelay(delay)
              /\ delays_used' = Append(delays_used, delay)
              /\ UNCHANGED stats
         [] resp.kind = "http" /\ resp.status # 429 /\ ~IsClientError(resp.status)
                /\ ~IsServerError(resp.status) ->
              /\ stats' = Bump(stats, "errors")
              /\ Finish("raised", resp)
              /\ NoSleep
              /\ UNCHANGED <<retry_attempts, delay, delays_used>>
         [] resp.kind = "exc" ->
              /\ stats' = Bump(stats, "errors")
              /\ IF CanRetryUnexpected(retry_attempts, max_retries)
                 THEN /\ SleepAndLoop(delay, "backoff")
                      /\ retry_attempts' = retry_attempts + 1
                      /\ delay' = nextDelay(delay)
                      /\ delays_used' = Append(delays_used, delay)
                 ELSE /\ Finish("raised", resp)
                      /\ NoSleep
                      /\ UNCHANGED <<retry_attempts, delay, delays_used>>

\* EmbedHandler.safe_send / safe_edit: the final attempt after the grace sleep
EmbedFinalAttempt(resp) ==
    /\ d_pc = "final"
    /\ d_handler = "EmbedHandler"
    /\ attempts' = attempts + 1
    /\ d_last' = resp
    /\ retried' = IF RetryableKind(d_handler, resp) THEN retried + 1 ELSE retried
    /\ NoSleep
    /\ UNCHANGED <<d_handler, d_op, max_retries, retry_attempts, delay,
                   delays_used, grace_sleeps, calls, lvars, cogvars>>
    /\ IF resp.kind = "ok"
       THEN /\ stats' = Bump(stats, SuccessKey(d_op))
            /\ Finish("returned", NoResp)
       ELSE /\ stats' = Bump(stats, "errors")
            /\ Finish(FinalFailureOutcome(resp), NoResp)

\* ResponseHandler.safe_send / safe_edit: one pass of the while body
ResponseAttempt(resp) ==
    /\ d_pc = "attempt"
    /\ d_handler = "ResponseHandler"
    /\ attempts' = attempts + 1
    /\ d_last' = resp
    /\ retried' = IF RetryableKind(d_handler, resp) THEN retried + 1 ELSE retried
    /\ UNCHANGED <<d_handler, d_op, max_retries, stats, grace_sleeps, calls, lvars, cogvars>>
    /\ CASE resp.kind = "ok" ->
              /\ Finish("returned", NoResp)
              /\ NoSleep
              /\ UNCHANGED <<retry_attempts, delay, delays_used>>
         [] resp.kind = "http" /\ resp.status = 429 ->
              /\ SleepAndLoop(delay, "backoff")
              /\ retry_attempts' = retry_attempts + 1
              /\ delay' = rhNextDelay(delay)
              /\ delays_used' = Append(delays_used, delay)
         [] OTHER ->
              /\ Finish("raised", resp)
              /\ NoSleep
              /\ UNCHANGED <<retry_attempts, delay, delays_used>>

\* ResponseHandler.safe_send / safe_edit: the final attempt after the grace sleep
ResponseFinalAttempt(resp) ==
    /\ d_pc = "final"
    /\ d_handler = "ResponseHandler"
    /\ attempts' = attempts + 1
    /\ d_last' = resp
    /\ retried' = IF RetryableKind(d_handler, resp) THEN retried + 1 ELSE retried
    /\ NoSleep
    /\ UNCHANGED <<d_handler, d_op, max_retries, retry_attempts, delay, stats,
                   delays_used, grace_sleeps, calls, lvars, cogvars>>
    /\ IF resp.kind = "ok"
       THEN Finish("returned", NoResp)
       ELSE Finish("none", NoResp)

(***************************************************************************)
(* Rate limit ledger                                                       *)
(***************************************************************************)

\* time.time() is a float: the model counts half seconds
TicksPerSecond == 2

user_limit == 10

channel_limit == 30

global_limit == 500

\* seconds
block_duration == 300

\* seconds: the period of _cleanup_task and the age it purges at
cleanup_window == 60

\* seconds: the cooldown reported for the global limit
global_cooldown == 60

user_maxlen == 50

channel_maxlen == 100

global_maxlen == 1000

\* seconds of modelled time
MaxTime == 360

\* one-second steps per behaviour
MaxSecondTicks == 1

Users == {1, 2}

Channels == {7}

Secs(n) == n * TicksPerSecond

\* int(x) of a float given in ticks: truncation towards zero, in seconds
IntTrunc(v) == IF v >= 0 THEN v \div TicksPerSecond ELSE -((-v) \div TicksPerSecond)

Put(f, k, v) == [x \in (DOMAIN f) \cup {k} |-> IF x = k THEN v ELSE f[x]]

Del(f, k) == [x \in (DOMAIN f) \ {k} |-> f[x]]

EmptyMap == [x \in {} |-> 0]

\* defaultdict: d[k] of a missing key inserts the empty deque
Touch(f, k) == IF k \in DOMAIN f THEN f ELSE Put(f, k, <<>>)

\* the append left out
DequeAppend_Drop(q, x, m) == q

\* deque(maxlen=m).append(x)
DequeAppend(q, x, m) == IF Len(q) >= m THEN Append(Tail(q), x) ELSE Append(q, x)

\* while requests and requests[0] < cutoff: requests.popleft()
RECURSIVE PopOld(_, _)
PopOld(q, cutoff) ==
    IF q # <<>> /\ Head(q) < cutoff THEN PopOld(Tail(q), cutoff) ELSE q

\* remaining = int(started + block_duration - current_time)
Remaining(started, t) == IntTrunc(started + Secs(block_duration) - t)

\* if remaining > 0
BlockActive(started, t) == Remaining(started, t) > 0

\* the user threshold tested with >
UserOverLimit_Gt(n) == n > user_limit

\* if len(user_requests) >= self.user_limit
UserOverLimit(n) == n >= user_limit

\* if len(channel_requests) >= self.channel_limit
\* the channel count never found at its limit
ChannelOverLimit_Never(n) == FALSE

ChannelOverLimit(n) == n >= channel_limit

\* the global count never found at its limit
GlobalOverLimit_Never(n) == FALSE

\* if len(self.global_requests) >= self.global_limit
GlobalOverLimit(n) == n >= global_limit

Result(limited, kind, retry) == [limited |-> limited, kind |-> kind, retry |-> retry]

\* RateLimitManager.is_rate_limited(user_id, channel_id) at time t: the result
\* and the ledger it leaves
is_rate_limited(u, c, t) ==
    LET ub  == u \in DOMAIN blocked_users /\ BlockActive(blocked_users[u], t)
        bu1 == IF u \in DOMAIN blocked_users /\ ~ub
               THEN Del(blocked_users, u) ELSE blocked_users
        cb  == c \in DOMAIN blocked_channels /\ BlockActive(blocked_channels[c], t)
        bc1 == IF c \in DOMAIN blocked_channels /\ ~cb
               THEN Del(blocked_channels, c) ELSE blocked_channels
        ur1 == Touch(user_requests, u)
        cr1 == Touch(channel_requests, c)
    IN  IF ub THEN
            [res |-> Result(TRUE, "user_blocked", Remaining(blocked_users[u], t)),
             bu |-> blocked_users, bc |-> blocked_channels,
             ur |-> user_requests, cr |-> channel_requests]
        ELSE IF cb THEN
            [res |-> Result(TRUE, "channel_blocked", Remaining(blocked_channels[c], t)),
             bu |-> bu1, bc |-> blocked_channels,
             ur |-> user_requests, cr |-> channel_requests]
        ELSE IF UserOverLimit(Len(ur1[u])) THEN
            [res |-> Result(TRUE, "user_limit", block_duration),
             bu |-> Put(bu1, u, t), bc |-> bc1,
             ur |-> ur1, cr |-> channel_requests]
        ELSE IF ChannelOverLimit(Len(cr1[c])) THEN
            [res |-> Result(TRUE, "channel_limit", block_duration),
             bu |-> bu1, bc |-> Put(bc1, c, t),
             ur |-> ur1, cr |-> cr1]
        ELSE IF GlobalOverLimit(Len(global_requests)) THEN
            [res |-> Result(TRUE, "global_limit", global_cooldown),
             bu |-> bu1, bc |-> bc1, ur |-> ur1, cr |-> cr1]
        ELSE
            [res |-> Result(FALSE, "", 0),
             bu |-> bu1, bc |-> bc1, ur |-> ur1, cr |-> cr1]

\* timestamps of q that lie inside the trailing window at time t
InWindow(q, t) == {i \in 1..Len(q) : t - q[i] <= Secs(cleanup_window)}

\* no "user_limit" result to remember
NoHit == 0 - 1

NoCheck == [user |-> 0, chan |-> 0, at |-> 0, res |-> Result(FALSE, "", 0),
            n_user |-> 0, n_fresh |-> 0, prev_hit |-> NoHit, ublocked |-> FALSE, cblocked |-> FALSE,
            uentry |-> FALSE]

LInit ==
    /\ now = 0
    /\ user_requests = EmptyMap
    /\ channel_requests = EmptyMap
    /\ global_requests = <<>>
    /\ blocked_users = EmptyMap
    /\ blocked_channels = EmptyMap
    /\ next_cleanup = Secs(cleanup_window)
    /\ sec_ticks = 0
    /\ l_last = NoCheck
    /\ l_hit = [u \in Users |-> NoHit]

\* EmbedHandler.send_*_embed as far as the ledger goes: _check_rate_limit, and
\* add_request when the check passes (no await lies between the two); the
\* dispatch that follows is SpecDispatch's
SendEmbed(u, c) ==
    LET r   == is_rate_limited(u, c, now)
        nu  == IF u \in DOMAIN user_requests THEN Len(user_requests[u]) ELSE 0
        nf  == IF u \in DOMAIN user_requests
               THEN Cardinality(InWindow(user_requests[u], now)) ELSE 0
    IN  /\ blocked_users' = r.bu
        /\ blocked_channels' = r.bc
        /\ IF r.res.limited
           THEN /\ user_requests' = r.ur
                /\ channel_requests' = r.cr
                /\ UNCHANGED global_requests
           ELSE /\ user_requests' =
                     [r.ur EXCEPT ![u] = DequeAppend(@, now, user_maxlen)]
                /\ channel_requests' =
                     [r.cr EXCEPT ![c] = DequeAppend(@, now, channel_maxlen)]
                /\ global_requests' = DequeAppend(global_requests, now, global_maxlen)
        /\ l_last' = [user |-> u, chan |-> c, at |-> now, res |-> r.res,
                      n_user |-> nu, n_fresh |-> nf, prev_hit |-> l_hit[u],
                      ublocked |-> (u \in DOMAIN blocked_users
                                      /\ BlockActive(blocked_users[u], now)),
                      cblocked |-> (c \in DOMAIN blocked_channels
                                      /\ BlockActive(blocked_channels[c], now)),
                      uentry |-> u \in DOMAIN blocked_users]
        /\ l_hit' = [l_hit EXCEPT ![u] =
                        IF r.res.kind = "user_limit" THEN now ELSE NoHit]
        /\ UNCHANGED <<now, next_cleanup, sec_ticks, dvars, cogvars>>

\* the block table kept as it is
LiveBlocks_All(b, t) == b

\* the entries of a block table younger than block_duration
LiveBlocks(b, t) ==
    [k \in {x \in DOMAIN b : t - b[x] < Secs(block_duration)} |-> b[k]]

\* the purge left out
PurgedWindows_Keep(w, cutoff) == w

\* the windows purged, the emptied keys kept
PurgedWindows_KeepEmpty(w, cutoff) == [k \in DOMAIN w |-> PopOld(w[k], cutoff)]

\* the windows purged of timestamps before the cutoff, emptied keys dropped
PurgedWindows(w, cutoff) ==
    [k \in {x \in DOMAIN w : PopOld(w[x], cutoff) # <<>>} |-> PopOld(w[k], cutoff)]

\* one pass of RateLimitManager._cleanup_task, run when its sleep(60) ends
Cleanup ==
    /\ now = next_cleanup
    /\ blocked_users' = LiveBlocks(blocked_users, now)
    /\ blocked_channels' = LiveBlocks(blocked_channels, now)
    /\ user_requests' = PurgedWindows(user_requests, now - Secs(cleanup_window))
    /\ channel_requests' = PurgedWindows(channel_requests, now - Secs(cleanup_window))
    /\ global_requests' = PopOld(global_requests, now - Secs(cleanup_window))
    /\ next_cleanup' = now + Secs(cleanup_window)
    /\ UNCHANGED <<now, sec_ticks, l_last, l_hit, dvars, cogvars>>

\* one second passes
TickSecond ==
    /\ sec_ticks < MaxSecondTicks
    /\ now + Secs(1) <= next_cleanup
    /\ now + Secs(1) <= Secs(MaxTime)
    /\ now' = now + Secs(1)
    /\ sec_ticks' = sec_ticks + 1
    /\ UNCHANGED <<user_requests, channel_requests, global_requests, blocked_users,
                   blocked_channels, next_cleanup, l_last, l_hit, dvars, cogvars>>

\* time passes until the cleanup task's sleep ends
TickToCleanup ==
    /\ now < next_cleanup
    /\ next_cleanup <= Secs(MaxTime)
    /\ now' = next_cleanup
    /\ UNCHANGED <<user_requests, channel_requests, global_requests, blocked_users,
                   blocked_channels, next_cleanup, sec_ticks, l_last, l_hit, dvars, cogvars>>

\* the traffic the model drives the ledger with: the cleanup pass runs as soon
\* as its sleep ends, before any event of the same instant, and the users
\* take turns, one starting when the windows of the others hold nothing
Turn(u) ==
    /\ now < next_cleanup
    /\ \A v \in DOMAIN user_requests : v # u => user_requests[v] = <<>>

NextLedger ==
    \/ \E u \in Users, c \in Channels : Turn(u) /\ SendEmbed(u, c)
    \/ Cleanup
    \/ TickSecond
    \/ TickToCleanup

(***************************************************************************)
(* Temporary voice channels: TempVoice (src/cogs/special/tempvoice.py)      *)
(***************************************************************************)

\* the minimum interval between two creations of one member (seconds)
tv_cooldown == 300

\* after.channel / before.channel is None
NoChannel == 0

\* the id of the create-channel
SetupId == 100

\* ids of created channels start after this one
TempBase == 200

\* the clock reading the model starts at (seconds since the epoch)
Epoch == 1000

\* channels the guild creates at most
MaxTempChannels == 2

\* on_voice_state_update invocations in progress at most
MaxListeners == 2

Members == {1, 2}

TempIds == (TempBase + 1)..(TempBase + MaxTempChannels)

\* the instants the clock is read at, as offsets from Epoch
TVOffsets == {0, Secs(100), Secs(100) + 1, Secs(300) - 1, Secs(300), Secs(301)}

FreeFrame == [pc |-> "free", member |-> 0, before |-> NoChannel, ctime |-> 0,
              chan |-> NoChannel]

ScanIdle == [pc |-> "sleeping", cur |-> NoChannel, rest |-> {}, ended |-> {}]

NoDecision == [member |-> 0, rejected |-> FALSE, remaining |-> 0]

\* len(vc.members) == 0, with the members at the places loc
Occupants(c, loc) == {m \in Members : loc[m] = c}

Count(f, k) == IF k \in DOMAIN f THEN f[k] ELSE 0

\* float(self.user_cooldowns.get(str(member.id), 0))
LastCreation(m) == IF m \in DOMAIN user_cooldowns THEN user_cooldowns[m] ELSE 0

\* the cooldown test of on_voice_state_update, always passing
InCooldown_Never(t, last) == FALSE

\* current_time - last_creation < 300
InCooldown(t, last) == t - last < Secs(tv_cooldown)

\* the remaining time, not truncated to whole seconds
CooldownRemaining_Ceil(t, last) ==
    (Secs(tv_cooldown) - (t - last) + TicksPerSecond - 1) \div TicksPerSecond

\* int(300 - (current_time - last_creation))
CooldownRemaining(t, last) == IntTrunc(Secs(tv_cooldown) - (t - last))

\* the first free invocation slot, 0 if none
FirstFree ==
    IF \E i \in 1..MaxListeners : v_frames[i].pc = "free"
    THEN CHOOSE i \in 1..MaxListeners :
            /\ v_frames[i].pc = "free"
            /\ \A j \in 1..(i - 1) : v_frames[j].pc # "free"
    ELSE 0

\* the emptiness test both reclaim paths make, ignoring the registry
\* "len(vc.members) == 0 and vc.id in self.temp_channels"
Reclaimable_Empty(c, loc, reg) == c # NoChannel /\ Occupants(c, loc) = {}

\* "len(vc.members) == 0 and vc.id in self.temp_channels"
Reclaimable(c, loc, reg) ==
    c # NoChannel /\ c \in DOMAIN reg /\ Occupants(c, loc) = {}

\* the first channel of a scan's remaining snapshot that the scan reclaims
ScanMatches(rest, loc, reg) ==
    {c \in rest : c \notin setup_channels /\ Reclaimable(c, loc, reg)}

FirstOf(S) == CHOOSE c \in S : \A d \in S : c <= d

TInit ==
    /\ tv_now = Secs(Epoch)
    /\ setup_channels = {SetupId}
    /\ temp_channels = EmptyMap
    /\ user_cooldowns = EmptyMap
    /\ v_exists = {SetupId}
    /\ v_loc = [m \in Members |-> NoChannel]
    /\ v_created = <<>>
    /\ v_frames = [i \in 1..MaxListeners |-> FreeFrame]
    /\ scan = ScanIdle
    /\ v_audit = EmptyMap
    /\ v_deletes = EmptyMap
    /\ v_removed = {}
    /\ tv_last = NoDecision

\* the history counters count up to this many
MaxCounted == 2

Bumped(f, k) == Put(f, k, Min(Count(f, k) + 1, MaxCounted))

\* invocations that passed the cooldown test and have not created yet
Creating == {i \in 1..MaxListeners : v_frames[i].pc = "creating"}

\* the tail of on_voice_state_update and the body of check_empty_channels'
\* if: the audit event, then the platform delete is called
EmitAndCallDelete(c) ==
    /\ v_audit' = Bumped(v_audit, c)
    /\ v_deletes' = Bumped(v_deletes, c)

\* a member changes voice channel and on_voice_state_update runs up to its
\* first await; the cooldown rejection, whose awaits touch no state of the
\* cog, is taken whole
VoiceStateUpdate(m, c) ==
    LET before == v_loc[m]
        loc1   == [v_loc EXCEPT ![m] = c]
        last   == LastCreation(m)
        slot   == FirstFree
    IN  /\ c \in v_exists \cup {NoChannel}
        /\ c # before
        /\ (\E i \in 1..MaxListeners :
               v_frames[i].member = m /\ v_frames[i].pc \in {"creating", "moving"})
              => c \in setup_channels \cup {NoChannel}
        /\ IF c \in setup_channels
           THEN /\ tv_last' = [member |-> m,
                               rejected |-> InCooldown(tv_now, last),
                               remaining |-> IF InCooldown(tv_now, last)
                                             THEN CooldownRemaining(tv_now, last)
                                             ELSE 0]
                /\ IF InCooldown(tv_now, last)
                   THEN /\ v_loc' = [v_loc EXCEPT ![m] = NoChannel]
                        /\ UNCHANGED v_frames
                   ELSE /\ slot # 0
                        /\ Len(v_created) + Cardinality(Creating) < MaxTempChannels
                        /\ v_loc' = loc1
                        /\ v_frames' = [v_frames EXCEPT ![slot] =
                              [pc |-> "creating", member |-> m, before |-> before,
                               ctime |-> tv_now, chan |-> NoChannel]]
                /\ UNCHANGED <<v_audit, v_deletes>>
           ELSE /\ v_loc' = loc1
                /\ IF Reclaimable(before, loc1, temp_channels)
                   THEN /\ slot # 0
                        /\ EmitAndCallDelete(before)
                        /\ v_frames' = [v_frames EXCEPT ![slot] =
                              [pc |-> "deleting", member |-> m, before |-> before,
                               ctime |-> 0, chan |-> before]]
                   ELSE UNCHANGED <<v_audit, v_deletes, v_frames>>
                /\ UNCHANGED tv_last
        /\ UNCHANGED <<tv_now, setup_channels, temp_channels, user_cooldowns,
                       v_exists, v_created, scan, v_removed, outside_tv>>

\* "await member.guild.create_voice_channel(...)" returns or raises
CreateDone(i, ok) ==
    LET f  == v_frames[i]
        id == TempBase + Len(v_created) + 1
    IN  /\ f.pc = "creating"
        /\ IF ok
           THEN /\ v_exists' = v_exists \cup {id}
                /\ v_created' = Append(v_created,
                                   [id |-> id, owner |-> f.member, at |-> tv_now])
                /\ v_frames' = [v_frames EXCEPT ![i] =
                                   [f EXCEPT !.pc = "moving", !.chan = id]]
           ELSE /\ v_frames' = [v_frames EXCEPT ![i] = FreeFrame]
                /\ UNCHANGED <<v_exists, v_created>>
        /\ UNCHANGED <<tv_now, setup_channels, temp_channels, user_cooldowns, v_loc,
                       scan, v_audit, v_deletes, v_removed, tv_last, outside_tv>>

\* "await member.move_to(temp_channel)" returns, or raises because the member
\* left voice; on return the channel is registered and the cooldown set
MoveDone(i) ==
    LET f == v_frames[i]
    IN  /\ f.pc = "moving"
        /\ IF v_loc[f.member] # NoChannel
           THEN /\ v_loc' = [v_loc EXCEPT ![f.member] = f.chan]
                /\ temp_channels' = Put(temp_channels, f.chan, f.member)
                /\ user_cooldowns' = Put(user_cooldowns, f.member, f.ctime)
                /\ v_frames' = [v_frames EXCEPT ![i] = [f EXCEPT !.pc = "perms"]]
           ELSE /\ v_frames' = [v_frames EXCEPT ![i] = FreeFrame]
                /\ UNCHANGED <<v_loc, temp_channels, user_cooldowns>>
        /\ UNCHANGED <<tv_now, setup_channels, v_exists, v_created, scan, v_audit,
                       v_deletes, v_removed, tv_last, outside_tv>>

\* "await temp_channel.set_permissions(...)" returns or raises; on return the
\* DM is tried and the handler reaches its test of before.channel
PermsDone(i, ok) ==
    LET f == v_frames[i]
    IN  /\ f.pc = "perms"
        /\ IF ok /\ Reclaimable(f.before, v_loc, temp_channels)
           THEN /\ EmitAndCallDelete(f.before)
                /\ v_frames' = [v_frames EXCEPT ![i] =
                                   [f EXCEPT !.pc = "deleting", !.chan = f.before]]
           ELSE /\ v_frames' = [v_frames EXCEPT ![i] = FreeFrame]
                /\ UNCHANGED <<v_audit, v_deletes>>
        /\ UNCHANGED <<tv_now, setup_channels, temp_channels, user_cooldowns, v_exists,
                       v_loc, v_created, scan, v_removed, tv_last, outside_tv>>

\* the guild after the platform deleted channel c
Disconnected(c) == [m \in Members |-> IF v_loc[m] = c THEN NoChannel ELSE v_loc[m]]

\* "await before.channel.delete()" returns or raises (the channel is gone
\* already, the bot may not delete it, the platform fails); on return
\* "del self.temp_channels[...]" runs
ListenerDeleteDone(i, ok) ==
    LET f == v_frames[i]
    IN  /\ f.pc = "deleting"
        /\ ok => f.chan \in v_exists
        /\ IF ok
           THEN /\ v_exists' = v_exists \ {f.chan}
                /\ v_loc' = Disconnected(f.chan)
                /\ temp_channels' = Del(temp_channels, f.chan)
           ELSE UNCHANGED <<v_exists, v_loc, temp_channels>>
        /\ v_frames' = [v_frames EXCEPT ![i] = FreeFrame]
        /\ UNCHANGED <<tv_now, setup_channels, user_cooldowns, v_created, scan,
                       v_audit, v_deletes, v_removed, tv_last, outside_tv>>

\* check_empty_channels from the channel after the ones it passed: up to the
\* next "await vc.delete()", or to the end of the iteration
ScanFrom(rest, loc, reg, ended) ==
    LET M == ScanMatches(rest, loc, reg)
    IN  IF M = {}
        THEN /\ scan' = [pc |-> "sleeping", cur |-> NoChannel, rest |-> {},
                         ended |-> ended]
             /\ UNCHANGED <<v_audit, v_deletes>>
        ELSE /\ scan' = [pc |-> "deleting", cur |-> FirstOf(M),
                         rest |-> {d \in rest : d > FirstOf(M)}, ended |-> ended]
             /\ EmitAndCallDelete(FirstOf(M))

\* an iteration of check_empty_channels begins (every 10 seconds while the
\* task lives) and finds a channel to reclaim
ScanStart ==
    /\ scan.pc = "sleeping"
    /\ ScanMatches(v_exists, v_loc, temp_channels) # {}
    /\ ScanFrom(v_exists, v_loc, temp_channels, scan.ended)
    /\ UNCHANGED <<tv_now, setup_channels, temp_channels, user_cooldowns, v_exists,
                   v_loc, v_created, v_frames, v_removed, tv_last, outside_tv>>

\* what an exception leaving check_empty_channels does to the task
ScanAfterError_Continue == "sleeping"

\* an exception that leaves check_empty_channels ends the tasks.loop task
ScanAfterError == "dead"

\* the scan's "await vc.delete()" returns or raises; on return the entry is
\* deleted from temp_channels (a KeyError if it is gone) and the loop goes on
ScanDeleteDone(ok) ==
    LET c == scan.cur
    IN  /\ scan.pc = "deleting"
        /\ ok => c \in v_exists
        /\ IF ok
           THEN /\ v_exists' = v_exists \ {c}
                /\ v_loc' = Disconnected(c)
                /\ temp_channels' = Del(temp_channels, c)
                /\ IF c \in DOMAIN temp_channels
                   THEN ScanFrom(scan.rest, Disconnected(c), Del(temp_channels, c),
                                 scan.ended \cup {c})
                   ELSE /\ scan' = [pc |-> ScanAfterError, cur |-> NoChannel,
                                    rest |-> {}, ended |-> scan.ended \cup {c}]
                        /\ UNCHANGED <<v_audit, v_deletes>>
           ELSE /\ scan' = [pc |-> ScanAfterError, cur |-> NoChannel, rest |-> {},
                            ended |-> scan.ended \cup {c}]
                /\ UNCHANGED <<v_exists, v_loc, temp_channels, v_audit, v_deletes>>
        /\ UNCHANGED <<tv_now, setup_channels, user_cooldowns, v_created, v_frames,
                       v_removed, tv_last, outside_tv>>

\* /removecooldown by an authorized user, for a member that has an entry
RemoveCooldown(m) ==
    /\ m \in DOMAIN user_cooldowns
    /\ user_cooldowns' = Del(user_cooldowns, m)
    /\ v_removed' = v_removed \cup {m}
    /\ UNCHANGED <<tv_now, setup_channels, temp_channels, v_exists, v_loc, v_created,
                   v_frames, scan, v_audit, v_deletes, tv_last, outside_tv>>

\* time passes to a later instant (the platform calls of an invocation take
\* less than the clock's resolution)
TVAdvance(o) ==
    /\ \A i \in 1..MaxListeners : v_frames[i].pc = "free"
    /\ Secs(Epoch) + o > tv_now
    /\ tv_now' = Secs(Epoch) + o
    /\ UNCHANGED <<setup_channels, temp_channels, user_cooldowns, v_exists, v_loc,
                   v_created, v_frames, scan, v_audit, v_deletes, v_removed, tv_last,
                   outside_tv>>

\* the awaited platform calls of the listener answer
ListenerStep ==
    \/ \E i \in 1..MaxListeners, ok \in BOOLEAN : CreateDone(i, ok)
    \/ \E i \in 1..MaxListeners : MoveDone(i)
    \/ \E i \in 1..MaxListeners, ok \in BOOLEAN : PermsDone(i, ok)
    \/ \E i \in 1..MaxListeners, ok \in BOOLEAN : ListenerDeleteDone(i, ok)

ScanStep ==
    \/ ScanStart
    \/ \E ok \in BOOLEAN : ScanDeleteDone(ok)

\* the cooldown at work: a member joins and leaves, time passes, administrators
\* remove the cooldown (the periodic scan left aside)
\* the members that use the create-channel while the cooldown is studied
Creators == {1}

NextCooldown ==
    \/ \E m \in Creators, c \in {NoChannel, SetupId} \cup TempIds : VoiceStateUpdate(m, c)
    \/ ListenerStep
    \/ \E m \in Creators : RemoveCooldown(m)
    \/ \E o \in TVOffsets : TVAdvance(o)

\* reclaiming at work: members join and leave within one instant, the
\* listener and the periodic scan reclaim
NextReclaim ==
    \/ \E m \in Members, c \in {NoChannel, SetupId} \cup TempIds : VoiceStateUpdate(m, c)
    \/ ListenerStep
    \/ ScanStep

\* create-channels the guild has at most
MaxSetups == 2

\* the platform gives every channel a new id: create-channels take theirs
\* from SetupId on, created channels from TempBase on
SetupIds == SetupId..(SetupId + MaxSetups - 1)

\* !tempvoice / /tempvoice by an authorized user: a create-channel is
\* created in the category and put into setup_channels
TempvoiceSetup ==
    LET id == SetupId + Cardinality(setup_channels)
    IN  /\ Cardinality(setup_channels) < MaxSetups
        /\ setup_channels' = setup_channels \cup {id}
        /\ v_exists' = v_exists \cup {id}
        /\ UNCHANGED <<tv_now, temp_channels, user_cooldowns, v_loc, v_created,
                       v_frames, scan, v_audit, v_deletes, v_removed, tv_last,
                       outside_tv>>

\* create-channels are set up while one member joins and leaves and the
\* listener and the periodic scan reclaim
NextSetup ==
    \/ TempvoiceSetup
    \/ \E m \in Creators, c \in {NoChannel} \cup SetupIds \cup TempIds :
          VoiceStateUpdate(m, c)
    \/ ListenerStep
    \/ ScanStep

(***************************************************************************)
(* Tickets: TicketConfig.save_config, TicketControls.close_button,          *)
(* TicketCloseConfirmation, TicketSystem.on_guild_channel_delete            *)
(* (src/cogs/special/tickets.py)                                            *)
(***************************************************************************)

\* the timeout of a TicketCloseConfirmation view (seconds)
confirm_timeout == 30

\* the delay between a Confirm and the closing (seconds)
closing_delay == 5

\* the least time between two writes of save_config (seconds)
save_interval == 1

\* no user (claimed_by is None)
NoActor == 0

\* confirmation views opened at most
MaxViews == 1

\* confirm_close invocations in progress at most
MaxConfirms == 2

\* Confirm presses at most
MaxPresses == 2

Tickets == {501}

\* 1 owns the ticket, 2 is another user, 3 is the staff the ticket may be
\* claimed by, 4 holds manage_channels
Actors == {1, 2, 3, 4}

Privileged == {4}

\* the instants the clock is read at, as offsets from Epoch
KOffsets == {0, Secs(5), Secs(5) + 1, Secs(6), Secs(30)}

NoConfirm == [pc |-> "free", ticket |-> 0, by |-> NoActor, pressed |-> 0]

\* what save_config writes: config["active_tickets"], config["statistics"]
Config(a, st) == [active |-> a, stats |-> st]

\* _create_default_config
DefaultConfig ==
    Config(EmptyMap, [total_tickets |-> 0, tickets_closed |-> 0])

\* no write made by this process: the file as the constructor found it
\* (present with the content disk, or absent)
NoWrites(present, disk) ==
    [n |-> 0, prev |-> 0, last |-> 0, file |-> present, disk |-> disk]

\* close_button's test of the actor, passing everybody
Allowed_Anyone(a, data) == TRUE

\* close_button: user_id == ticket_owner or user_id == claimed_by or
\* manage_channels or administrator
Allowed(a, data) == a = data.user_id \/ a = data.claimed_by \/ a \in Privileged

\* a view that never times out
ViewLive_Forever(v, t) == v.state = "open"

\* a TicketCloseConfirmation view still dispatches its buttons at time t
ViewLive(v, t) == v.state = "open" /\ t < v.base + Secs(confirm_timeout)

\* save_config's throttle, never holding a write back
Throttled_Never(t, last) == FALSE

\* save_config: current_time - self._last_save < 1
Throttled(t, last) == t - last < Secs(save_interval)

\* TicketConfig._last_save after save_config at time t
SavedAt(t, last) == IF Throttled(t, last) THEN last ELSE t

\* the writes of the config file after save_config at time t
WritesAfter(w, t, last, cfg) ==
    IF Throttled(t, last) THEN w
    ELSE [n |-> Min(w.n + 1, MaxCounted), prev |-> w.last, last |-> t,
          file |-> TRUE, disk |-> cfg]

FreeConfirm ==
    IF \E i \in 1..MaxConfirms : k_frames[i].pc = "free"
    THEN CHOOSE i \in 1..MaxConfirms :
            /\ k_frames[i].pc = "free"
            /\ \A j \in 1..(i - 1) : k_frames[j].pc # "free"
    ELSE 0

\* the cog as constructed on a config file that holds one open ticket
KInit ==
    /\ k_now = Secs(Epoch)
    /\ last_save = Secs(Epoch)
    /\ \E cl \in {NoActor, 3} :
          active_tickets = [t \in Tickets |->
              [user_id |-> 1, claimed_by |-> cl,
               claimed_at |-> IF cl = NoActor THEN 0 ELSE Secs(Epoch)]]
    /\ kstats = [total_tickets |-> Cardinality(Tickets), tickets_closed |-> 0]
    /\ k_exists = Tickets
    /\ k_views = <<>>
    /\ k_frames = [i \in 1..MaxConfirms |-> NoConfirm]
    /\ k_audit = EmptyMap
    /\ k_writes = NoWrites(TRUE, Config(active_tickets, kstats))
    /\ k_presses = 0
    /\ k_closed = EmptyMap
    /\ k_last = NoActor

\* TicketControls.close_button pressed by actor a in ticket channel t
ClosePress(a, t) ==
    /\ t \in k_exists
    /\ t \in DOMAIN active_tickets
    /\ IF Allowed(a, active_tickets[t])
       THEN /\ Len(k_views) < MaxViews
            /\ k_views' = Append(k_views,
                             [ticket |-> t, actor |-> a, opened |-> k_now,
                              base |-> k_now, state |-> "open"])
            /\ k_last' = NoActor
       ELSE /\ k_last' = a
            /\ UNCHANGED k_views
    /\ UNCHANGED <<k_now, active_tickets, kstats, k_exists, k_frames, k_audit,
                   last_save, k_writes, k_presses, k_closed, outside_tk>>

\* TicketCloseConfirmation.confirm_close up to its asyncio.sleep(5): the
\* statistics are updated; followup.send returns (ok) or raises
ConfirmPress(v, ok) ==
    LET w    == k_views[v]
        slot == FreeConfirm
    IN  /\ ViewLive(w, k_now)
        /\ w.ticket \in k_exists
        /\ k_presses < MaxPresses
        /\ k_presses' = k_presses + 1
        /\ k_views' = [k_views EXCEPT ![v].base = k_now]
        /\ kstats' = [kstats EXCEPT !.tickets_closed = @ + 1]
        /\ IF ok
           THEN /\ slot # 0
                /\ k_frames' = [k_frames EXCEPT ![slot] =
                      [pc |-> "sleeping", ticket |-> w.ticket, by |-> w.actor,
                       pressed |-> k_now]]
           ELSE UNCHANGED k_frames
        /\ UNCHANGED <<k_now, active_tickets, k_exists, k_audit, last_save, k_writes,
                       k_closed, k_last, outside_tk>>

\* TicketCloseConfirmation.cancel_close: the message loses its buttons
CancelPress(v) ==
    /\ ViewLive(k_views[v], k_now)
    /\ k_views' = [k_views EXCEPT ![v].state = "cancelled"]
    /\ UNCHANGED <<k_now, active_tickets, kstats, k_exists, k_frames, k_audit,
                   last_save, k_writes, k_presses, k_closed, k_last, outside_tk>>

\* confirm_close after its sleep: the audit event, the entry removed if it
\* is there, save_config, and the channel delete called
ConfirmWake(i) ==
    LET f == k_frames[i]
    IN  /\ f.pc = "sleeping"
        /\ k_now >= f.pressed + Secs(closing_delay)
        /\ k_audit' = Put(k_audit, f.ticket, Count(k_audit, f.ticket) + 1)
        /\ active_tickets' = Del(active_tickets, f.ticket)
        /\ k_closed' = IF f.ticket \in DOMAIN active_tickets
                       THEN Put(k_closed, f.ticket,
                                [by |-> f.by, data |-> active_tickets[f.ticket]])
                       ELSE k_closed
        /\ last_save' = SavedAt(k_now, last_save)
        /\ k_writes' = WritesAfter(k_writes, k_now, last_save,
                                   Config(active_tickets', kstats))
        /\ k_frames' = [k_frames EXCEPT ![i].pc = "deleting"]
        /\ UNCHANGED <<k_now, kstats, k_exists, k_views, k_presses, k_last, outside_tk>>

\* "await interaction.channel.delete(...)" returns or raises; the deletion
\* triggers on_guild_channel_delete, which finds the entry gone
ConfirmDeleteDone(i, ok) ==
    LET f == k_frames[i]
    IN  /\ f.pc = "deleting"
        /\ ok => f.ticket \in k_exists
        /\ k_exists' = IF ok THEN k_exists \ {f.ticket} ELSE k_exists
        /\ k_frames' = [k_frames EXCEPT ![i] = NoConfirm]
        /\ UNCHANGED <<k_now, active_tickets, kstats, k_views, k_audit, last_save,
                       k_writes, k_presses, k_closed, k_last, outside_tk>>

\* a moderator deletes ticket channel t by hand: on_guild_channel_delete
GuildChannelDelete(t) ==
    /\ t \in k_exists
    /\ k_exists' = k_exists \ {t}
    /\ active_tickets' = Del(active_tickets, t)
    /\ IF t \in DOMAIN active_tickets
       THEN /\ last_save' = SavedAt(k_now, last_save)
            /\ k_writes' = WritesAfter(k_writes, k_now, last_save,
                                       Config(active_tickets', kstats))
       ELSE UNCHANGED <<last_save, k_writes>>
    /\ UNCHANGED <<k_now, kstats, k_views, k_frames, k_audit, k_presses, k_closed,
                   k_last, outside_tk>>

\* time passes to a later instant
KAdvance(o) ==
    /\ Secs(Epoch) + o > k_now
    /\ k_now' = Secs(Epoch) + o
    /\ UNCHANGED <<active_tickets, kstats, k_exists, k_views, k_frames, k_audit,
                   last_save, k_writes, k_presses, k_closed, k_last, outside_tk>>

\* claim_button's tests, letting a claimed ticket be claimed again
MayClaim_Again(a, data) == a \in Privileged

\* claim_button's tests: guild_permissions.manage_channels or administrator,
\* and "if ticket_data.get("claimed_by")" turning the press away
MayClaim(a, data) == a \in Privileged /\ data.claimed_by = NoActor

\* TicketControls.claim_button pressed by actor a in ticket channel t: a
\* holder of manage_channels or administrator claims an unclaimed ticket
ClaimPress(a, t) ==
    /\ t \in k_exists
    /\ t \in DOMAIN active_tickets
    /\ MayClaim(a, active_tickets[t])
    /\ active_tickets' = [active_tickets EXCEPT ![t].claimed_by = a,
                                                ![t].claimed_at = k_now]
    /\ last_save' = SavedAt(k_now, last_save)
    /\ k_writes' = WritesAfter(k_writes, k_now, last_save,
                               Config(active_tickets', kstats))
    /\ UNCHANGED <<k_now, kstats, k_exists, k_views, k_frames, k_audit, k_presses,
                   k_closed, k_last, outside_tk>>

\* TicketConfig() on first start, no config file there: load_config takes
\* the defaults, whose save_config comes within a second of _last_save
KFresh ==
    /\ k_now = Secs(Epoch)
    /\ last_save = SavedAt(Secs(Epoch), Secs(Epoch))
    /\ active_tickets = DefaultConfig.active
    /\ kstats = DefaultConfig.stats
    /\ k_exists = {}
    /\ k_views = <<>>
    /\ k_frames = [i \in 1..MaxConfirms |-> NoConfirm]
    /\ k_audit = EmptyMap
    /\ k_writes = WritesAfter(NoWrites(FALSE, DefaultConfig), Secs(Epoch),
                              Secs(Epoch), DefaultConfig)
    /\ k_presses = 0
    /\ k_closed = EmptyMap
    /\ k_last = NoActor

NextTickets ==
    \/ \E a \in Actors, t \in Tickets : ClosePress(a, t)
    \/ \E v \in 1..MaxViews, ok \in BOOLEAN : v <= Len(k_views) /\ ConfirmPress(v, ok)
    \/ \E v \in 1..MaxViews : v <= Len(k_views) /\ CancelPress(v)
    \/ \E i \in 1..MaxConfirms : ConfirmWake(i)
    \/ \E i \in 1..MaxConfirms, ok \in BOOLEAN : ConfirmDeleteDone(i, ok)
    \/ \E t \in Tickets : GuildChannelDelete(t)
    \/ \E o \in KOffsets : KAdvance(o)

(***************************************************************************)
(* Loading the store files: TicketConfig.load_config (tickets.py),          *)
(* TempVoice.__init__ / load_channels (tempvoice.py)                        *)
(***************************************************************************)

Stores == {"tickets", "tempvoice"}

\* the file a constructor can find: none; an empty one; a JSON object of the
\* expected layout; text that is not JSON (a truncated write); JSON that is
\* not an object (a list); bytes that do not decode as text; a file that
\* open() refuses (permissions)
FileKinds == {"absent", "empty", "valid", "malformed", "wrong_shape",
              "undecodable", "unreadable"}

\* the files a reader cannot use
Corrupt == {"malformed", "wrong_shape", "undecodable", "unreadable"}

\* result: "loaded" (memory = file), "defaults" (memory reinitialised),
\* "raised" (the constructor raised: the cog is not loaded); aside: the file
\* found was renamed and kept; file: what is at the store's path afterwards
Booted(result, aside, file) == [result |-> result, aside |-> aside, file |-> file]

NotBooted == Booted("pending", FALSE, "absent")

\* TicketConfig.load_config: JSONDecodeError and IOError are caught, the file
\* is renamed to <path>.backup.<time> (os.rename answers or raises) and the
\* defaults are taken, their save_config suppressed by the throttle; a
\* UnicodeDecodeError, and the TypeError of _validate_config on JSON that is
\* not an object, are not caught
load_config(kind, rename_ok) ==
    CASE kind = "valid" -> Booted("loaded", FALSE, "valid")
      [] kind = "absent" -> Booted("defaults", FALSE, "absent")
      [] kind \in {"wrong_shape", "undecodable"} -> Booted("raised", FALSE, kind)
      [] OTHER -> IF rename_ok THEN Booted("defaults", TRUE, "absent")
                  ELSE Booted("raised", FALSE, kind)

\* TempVoice.__init__ and load_channels: a missing file is created with the
\* defaults; an empty file and a JSONDecodeError lead to
\* _create_default_data, whose save_channels overwrites the file; any other
\* exception is not caught
load_channels(kind) ==
    CASE kind \in {"valid", "absent"} -> Booted("loaded", FALSE, "valid")
      [] kind \in {"empty", "malformed"} -> Booted("defaults", FALSE, "valid")
      [] OTHER -> Booted("raised", FALSE, kind)

\* both stores found in order and loaded
BQuiet ==
    /\ b_files = [s \in Stores |-> "valid"]
    /\ b_boot = [s \in Stores |-> Booted("loaded", FALSE, "valid")]

\* the constructors are about to run on whatever files there are
BInit ==
    /\ b_files \in [Stores -> FileKinds]
    /\ b_boot = [s \in Stores |-> NotBooted]

\* TicketConfig() runs
LoadConfig(rename_ok) ==
    /\ b_boot["tickets"] = NotBooted
    /\ b_boot' = [b_boot EXCEPT !["tickets"] =
                      load_config(b_files["tickets"], rename_ok)]
    /\ UNCHANGED <<b_files, dvars, lvars, tvars, kvars, rvars, morevars>>

\* TempVoice(bot) runs
LoadChannels ==
    /\ b_boot["tempvoice"] = NotBooted
    /\ b_boot' = [b_boot EXCEPT !["tempvoice"] = load_channels(b_files["tempvoice"])]
    /\ UNCHANGED <<b_files, dvars, lvars, tvars, kvars, rvars, morevars>>

NextBoot ==
    \/ \E rename_ok \in BOOLEAN : LoadConfig(rename_ok)
    \/ LoadChannels

(***************************************************************************)
(* Limiters in front of an action: TicketButton.ticket_button with          *)
(* RateLimiter (tickets.py), TempChannel.tempchannel (tempchannel.py)       *)
(***************************************************************************)

\* RateLimiter.is_rate_limited defaults: max_per_user, window (seconds)
max_per_user == 3

rl_window == 300

\* set_user_cooldown(interaction.user.id, 30)
tc_cooldown == 30

\* handler invocations in progress at most
MaxHandlers == 2

\* passes remembered per handler
MaxPasses == 4

\* the instants the clock is read at, as offsets from Epoch
ROffsets == {0, Secs(tc_cooldown), Secs(rl_window)}

Idle == [pc |-> "free"]

\* RateLimiter._cleanup_old_attempts: the attempts younger than the window
RecentAttempts(as, t) ==
    SelectSeq(as, LAMBDA a : t - a < Secs(rl_window))

\* len(user_attempts) >= max_per_user
TicketLimited(as) == Len(as) >= max_per_user

\* TempChannel.is_rate_limited: now < self._rate_limit_cooldown[user_id]
TempLimited(t, until) == t < until

FreeHandler ==
    IF \E i \in 1..MaxHandlers : r_frames[i].pc = "free"
    THEN CHOOSE i \in 1..MaxHandlers :
            /\ r_frames[i].pc = "free"
            /\ \A j \in 1..(i - 1) : r_frames[j].pc # "free"
    ELSE 0

RInit ==
    /\ r_now = Secs(Epoch)
    /\ rl_attempts = <<>>
    /\ tc_until = 0
    /\ r_frames = [i \in 1..MaxHandlers |-> Idle]
    /\ r_passes = [ticket |-> <<>>, temp |-> <<>>]

\* the actor presses "Create Ticket": ticket_button awaits
\* interaction.response.defer
TicketPress ==
    /\ FreeHandler # 0
    /\ Len(r_passes.ticket) < MaxPasses
    /\ r_frames' = [r_frames EXCEPT ![FreeHandler] = [pc |-> "deferring"]]
    /\ UNCHANGED <<r_now, rl_attempts, tc_until, r_passes, dvars, lvars, tvars,
                   kvars, bvars, morevars>>

\* defer has answered: rate_limiter.is_rate_limited(user.id); a limited
\* actor is told so, any other goes on to "await create_ticket(interaction)"
TicketChecked(i) ==
    LET kept == RecentAttempts(rl_attempts, r_now)
    IN  /\ r_frames[i].pc = "deferring"
        /\ rl_attempts' = kept
        /\ IF TicketLimited(kept)
           THEN /\ r_frames' = [r_frames EXCEPT ![i] = Idle]
                /\ UNCHANGED r_passes
           ELSE /\ r_frames' = [r_frames EXCEPT ![i] = [pc |-> "creating"]]
                /\ r_passes' = [r_passes EXCEPT !.ticket = Append(@, r_now)]
        /\ UNCHANGED <<r_now, tc_until, dvars, lvars, tvars, kvars, bvars, morevars>>

\* create_ticket returns: "if success: self.rate_limiter.add_attempt(...)"
TicketCreated(i, success) ==
    /\ r_frames[i].pc = "creating"
    /\ rl_attempts' = IF success THEN Append(rl_attempts, r_now) ELSE rl_attempts
    /\ r_frames' = [r_frames EXCEPT ![i] = Idle]
    /\ UNCHANGED <<r_now, tc_until, r_passes, dvars, lvars, tvars, kvars, bvars, morevars>>

\* the actor runs /tempchannel and is not on cooldown: the command awaits
\* interaction.response.defer (on cooldown it answers and changes nothing)
TempChannelCommand ==
    /\ FreeHandler # 0
    /\ Len(r_passes.temp) < MaxPasses
    /\ ~TempLimited(r_now, tc_until)
    /\ r_frames' = [r_frames EXCEPT ![FreeHandler] = [pc |-> "tc_deferring"]]
    /\ r_passes' = [r_passes EXCEPT !.temp = Append(@, r_now)]
    /\ UNCHANGED <<r_now, rl_attempts, tc_until, dvars, lvars, tvars, kvars, bvars, morevars>>

\* defer has answered, "self.set_user_cooldown(interaction.user.id, 30)", or
\* has raised, which skips it
TempDeferred(i, ok) ==
    /\ r_frames[i].pc = "tc_deferring"
    /\ tc_until' = IF ok THEN r_now + Secs(tc_cooldown) ELSE tc_until
    /\ r_frames' = [r_frames EXCEPT ![i] = Idle]
    /\ UNCHANGED <<r_now, rl_attempts, r_passes, dvars, lvars, tvars, kvars, bvars, morevars>>

\* time passes to a later instant
RAdvance(o) ==
    /\ Secs(Epoch) + o > r_now
    /\ r_now' = Secs(Epoch) + o
    /\ UNCHANGED <<rl_attempts, tc_until, r_frames, r_passes, dvars, lvars, tvars,
                   kvars, bvars, morevars>>

NextLimiters ==
    \/ TicketPress
    \/ \E i \in 1..MaxHandlers : TicketChecked(i)
    \/ \E i \in 1..MaxHandlers, success \in BOOLEAN : TicketCreated(i, success)
    \/ TempChannelCommand
    \/ \E i \in 1..MaxHandlers, ok \in BOOLEAN : TempDeferred(i, ok)
    \/ \E o \in ROffsets : RAdvance(o)

(***************************************************************************)
(* The periodic tasks: RateLimitManager._cleanup_task (embed_handler.py),   *)
(* TempVoice.check_empty_channels under tasks.loop (tempvoice.py)           *)
(***************************************************************************)

Tasks == {"cleanup", "scan"}

\* periods counted while a body runs, iterations counted
MaxMissed == 2

MaxIterations == 3

\* "while True: await asyncio.sleep(60); <body>" and tasks.loop's
\* "await self.coro(); await sleep_until(next)": the one coroutine of a task
\* starts a body only from its sleep; the same, starting bodies regardless
MayStart_Always(pc) == pc # "ended"

MayStart(pc) == pc = "sleeping"

\* asyncio.create_task(self._cleanup_task()) in RateLimitManager.__init__,
\* self.check_empty_channels.start() in TempVoice.__init__
PInit ==
    /\ p_pc = [l \in Tasks |-> "sleeping"]
    /\ p_live = [l \in Tasks |-> 0]
    /\ p_missed = [l \in Tasks |-> 0]
    /\ p_done = [l \in Tasks |-> 0]

\* asyncio.sleep(60) returns: the body of _cleanup_task, which awaits
\* nothing, runs to its end (an Exception in it is logged) and the task is
\* back at its sleep
CleanupIteration ==
    /\ MayStart(p_pc["cleanup"])
    /\ p_done["cleanup"] < MaxIterations
    /\ p_done' = [p_done EXCEPT !["cleanup"] = @ + 1]
    /\ UNCHANGED <<p_pc, p_live, p_missed, outside_p>>

\* the 10 s of tasks.loop are over and check_empty_channels runs up to its
\* first "await vc.delete()"
ScanIterationStarts ==
    /\ MayStart(p_pc["scan"])
    /\ p_done["scan"] < MaxIterations
    /\ p_pc' = [p_pc EXCEPT !["scan"] = "running"]
    /\ p_live' = [p_live EXCEPT !["scan"] = @ + 1]
    /\ p_missed' = [p_missed EXCEPT !["scan"] = 0]
    /\ UNCHANGED <<p_done, outside_p>>

\* another 10 s pass while the body still awaits: nothing is started
PeriodElapses ==
    /\ p_pc["scan"] = "running"
    /\ p_missed["scan"] < MaxMissed
    /\ p_missed' = [p_missed EXCEPT !["scan"] = @ + 1]
    /\ UNCHANGED <<p_pc, p_live, p_done, outside_p>>

\* the body, after any number of "await vc.delete()", returns (the task
\* sleeps again) or an exception leaves it (the task ends)
ScanIterationEnds(ok) ==
    /\ p_pc["scan"] = "running"
    /\ p_pc' = [p_pc EXCEPT !["scan"] = IF ok THEN "sleeping" ELSE "ended"]
    /\ p_live' = [p_live EXCEPT !["scan"] = @ - 1]
    /\ p_done' = [p_done EXCEPT !["scan"] = @ + 1]
    /\ UNCHANGED <<p_missed, outside_p>>

\* the task is cancelled (cog_unload, the bot closing): CancelledError is
\* raised at the await the task stands at, a running body is abandoned
CancelTask(l) ==
    /\ p_pc[l] # "ended"
    /\ p_pc' = [p_pc EXCEPT ![l] = "ended"]
    /\ p_live' = [p_live EXCEPT ![l] = IF p_pc[l] = "running" THEN @ - 1 ELSE @]
    /\ UNCHANGED <<p_missed, p_done, outside_p>>

NextTasks ==
    \/ CleanupIteration
    \/ ScanIterationStarts
    \/ PeriodElapses
    \/ \E ok \in BOOLEAN : ScanIterationEnds(ok)
    \/ \E l \in Tasks : CancelTask(l)

(***************************************************************************)
(* Ticket creation: TicketButton.ticket_button with                         *)
(* TicketSystem.create_ticket (src/cogs/special/tickets.py)                 *)
(***************************************************************************)

\* settings.max_tickets_per_user of the default config
max_tickets_per_user == 3

\* ticket_button invocations in progress at most
MaxCreators == 2

\* presses of the button at most
MaxCreatePresses == 5

\* "if len(user_tickets) >= max_tickets"
AtTicketLimit(n) == n >= max_tickets_per_user

FreeCreator ==
    IF \E i \in 1..MaxCreators : c_frames[i].pc = "free"
    THEN CHOOSE i \in 1..MaxCreators :
            /\ c_frames[i].pc = "free"
            /\ \A j \in 1..(i - 1) : c_frames[j].pc # "free"
    ELSE 0

CInit ==
    /\ c_frames = [i \in 1..MaxCreators |-> Idle]
    /\ c_active = 0
    /\ c_channels = 0
    /\ c_presses = 0

\* the user presses "Create Ticket": ticket_button awaits
\* interaction.response.defer
CreatePress ==
    /\ FreeCreator # 0
    /\ c_presses < MaxCreatePresses
    /\ c_presses' = c_presses + 1
    /\ c_frames' = [c_frames EXCEPT ![FreeCreator] = [pc |-> "deferring"]]
    /\ UNCHANGED <<c_active, c_channels, rl_attempts, outside_c>>

\* defer has answered: the limiter's check, then create_ticket up to
\* "await category.create_text_channel(...)"; a limited user and a user at
\* max_tickets_per_user are told so and nothing is recorded
CreateChecked(i) ==
    LET kept == RecentAttempts(rl_attempts, r_now)
    IN  /\ c_frames[i].pc = "deferring"
        /\ rl_attempts' = kept
        /\ c_frames' = [c_frames EXCEPT ![i] =
              IF TicketLimited(kept) \/ AtTicketLimit(c_active)
              THEN Idle ELSE [pc |-> "creating"]]
        /\ UNCHANGED <<c_active, c_channels, c_presses, outside_c>>

\* create_text_channel returns or raises (HTTPException: return False)
TicketChannelCreated(i, ok) ==
    /\ c_frames[i].pc = "creating"
    /\ c_channels' = IF ok THEN c_channels + 1 ELSE c_channels
    /\ c_frames' = [c_frames EXCEPT ![i] = IF ok THEN [pc |-> "welcoming"] ELSE Idle]
    /\ UNCHANGED <<c_active, c_presses, rl_attempts, outside_c>>

\* "await ticket_channel.send(...)" returns: the entry is put into
\* active_tickets, total_tickets counted, the config saved, and the answer
\* to the user is awaited; or it raises: return False
WelcomeSent(i, ok) ==
    /\ c_frames[i].pc = "welcoming"
    /\ c_active' = IF ok THEN c_active + 1 ELSE c_active
    /\ c_frames' = [c_frames EXCEPT ![i] = IF ok THEN [pc |-> "answering"] ELSE Idle]
    /\ UNCHANGED <<c_channels, c_presses, rl_attempts, outside_c>>

\* "await interaction.followup.send(embed=success_embed)" returns (True, and
\* ticket_button records the attempt) or raises (False)
CreateAnswered(i, ok) ==
    /\ c_frames[i].pc = "answering"
    /\ rl_attempts' = IF ok THEN Append(rl_attempts, r_now) ELSE rl_attempts
    /\ c_frames' = [c_frames EXCEPT ![i] = Idle]
    /\ UNCHANGED <<c_active, c_channels, c_presses, outside_c>>

NextCreate ==
    \/ CreatePress
    \/ \E i \in 1..MaxCreators : CreateChecked(i)
    \/ \E i \in 1..MaxCreators, ok \in BOOLEAN : TicketChannelCreated(i, ok)
    \/ \E i \in 1..MaxCreators, ok \in BOOLEAN : WelcomeSent(i, ok)
    \/ \E i \in 1..MaxCreators, ok \in BOOLEAN : CreateAnswered(i, ok)
    \/ \E o \in ROffsets : RAdvance(o)

(***************************************************************************)
(* Cached embeds: EmbedCache, EmbedHandler.send_loading_embed,              *)
(* send_success_embed, send_error_embed (src/cogs/normal/embed_handler.py)  *)
(***************************************************************************)

\* EmbedCache(ttl=300), seconds
cache_ttl == 300

\* calls at most
MaxSends == 3

EmbedKinds == {"loading", "success", "error"}

\* texts are sequences of the letters 1 and 2
Titles == {<<1>>, <<1, 2>>}

Descriptions == {<<1>>, <<2, 1>>}

EOffsets == {0, Secs(cache_ttl) - 1, Secs(cache_ttl), Secs(cache_ttl) + 1}

\* hash() of a text, free of collisions on the texts above: the text read
\* as a number in base 3 behind a leading 1
RECURSIVE Hash(_)
Hash(text) ==
    IF text = <<>> THEN 1 ELSE Hash(SubSeq(text, 1, Len(text) - 1)) * 3 + text[Len(text)]

\* cache_key = f"<kind>_{hash(title + description)}"
CacheKey(kind, title, description) == <<kind, Hash(title \o description)>>

\* discord.Embed(title=f"{emoji} {title}", description=f"{EYES} {description}")
\* of the kind's colour
BuiltEmbed(kind, title, description) ==
    [kind |-> kind, title |-> title, description |-> description]

\* EmbedCache.get: the entry if it is younger than ttl
CacheGet(cache, key, t) ==
    IF key \in DOMAIN cache /\ t - cache[key].at < Secs(cache_ttl)
    THEN [hit |-> TRUE, embed |-> cache[key].embed]
    ELSE [hit |-> FALSE, embed |-> BuiltEmbed("", <<>>, <<>>)]

NoSend == [sent |-> FALSE, hit |-> FALSE, kind |-> "", title |-> <<>>,
           description |-> <<>>, embed |-> BuiltEmbed("", <<>>, <<>>)]

EInit ==
    /\ e_now = Secs(Epoch)
    /\ e_cache = EmptyMap
    /\ e_sent = NoSend
    /\ e_sends = 0

\* send_<kind>_embed(ctx, title, description): a limited caller gets None;
\* otherwise the cached embed of the key or, on a miss (an expired entry is
\* dropped by get), a new embed that is put into the cache
\* (caching.enabled is True), and the embed goes to safe_send
SendKindEmbed(kind, title, description, limited) ==
    LET key   == CacheKey(kind, title, description)
        got   == CacheGet(e_cache, key, e_now)
        embed == IF got.hit THEN got.embed ELSE BuiltEmbed(kind, title, description)
    IN  /\ e_sends < MaxSends
        /\ e_sends' = e_sends + 1
        /\ IF limited
           THEN /\ e_sent' = NoSend
                /\ UNCHANGED e_cache
           ELSE /\ e_cache' = IF got.hit THEN e_cache
                              ELSE Put(e_cache, key, [embed |-> embed, at |-> e_now])
                /\ e_sent' = [sent |-> TRUE, hit |-> got.hit, kind |-> kind,
                              title |-> title, description |-> description,
                              embed |-> embed]
        /\ UNCHANGED <<e_now, outside_e>>

\* EmbedCache._cleanup_cache, every 60 s: entries older than ttl go
CacheCleanup ==
    /\ e_cache' = [k \in {x \in DOMAIN e_cache :
                              ~(e_now - e_cache[x].at > Secs(cache_ttl))}
                      |-> e_cache[k]]
    /\ e_cache' # e_cache
    /\ UNCHANGED <<e_now, e_sent, e_sends, outside_e>>

\* time passes to a later instant
EAdvance(o) ==
    /\ Secs(Epoch) + o > e_now
    /\ e_now' = Secs(Epoch) + o
    /\ UNCHANGED <<e_cache, e_sent, e_sends, outside_e>>

NextCache ==
    \/ \E kind \in EmbedKinds, title \in Titles, description \in Descriptions,
          limited \in BOOLEAN : SendKindEmbed(kind, title, description, limited)
    \/ CacheCleanup
    \/ \E o \in EOffsets : EAdvance(o)

(***************************************************************************)
(* Reviews: ReviewSystem (src/cogs/normal/review.py)                        *)
(***************************************************************************)

\* a user with USER_ROLE_ID and no admin role
Submitters == {1}

\* members with ADMIN_ROLE_ID or administrator permission
Reviewers == {8, 9}

\* /review invocations, tasks and reaction handlers in progress at most
MaxCommands == 3

MaxReviewTasks == 2

MaxReactionHandlers == 2

\* posts to the approved channel are counted up to this many
MaxPosts == 2

NoTask == [pc |-> "free", user |-> 0]

NoHandler == [pc |-> "free", msg |-> 0]

\* on_reaction_add's test of the row, deciding whatever its status
IsPending_Always(status) == TRUE

\* "if not submission or submission['status'] != 'pending': return"
IsPending(status) == status = "pending"

\* has_used_review(...) and not is_user_unlisted(...), nobody being unlisted
HasUsedReview(u) == u \in s_used

FreeSlot(frames, n) ==
    IF \E i \in 1..n : frames[i].pc = "free"
    THEN CHOOSE i \in 1..n :
            /\ frames[i].pc = "free"
            /\ \A j \in 1..(i - 1) : frames[j].pc # "free"
    ELSE 0

SInit ==
    /\ s_subs = <<>>
    /\ s_used = {}
    /\ s_tasks = [i \in 1..MaxReviewTasks |-> NoTask]
    /\ s_handlers = [i \in 1..MaxReactionHandlers |-> NoHandler]
    /\ s_commands = 0

\* /review by a submitter with an image in the upload channel: a user that
\* has used it is turned away; otherwise the command answers and starts
\* _process_review_submission as a task
ReviewCommand(u) ==
    LET slot == FreeSlot(s_tasks, MaxReviewTasks)
    IN  /\ s_commands < MaxCommands
        /\ s_commands' = s_commands + 1
        /\ IF HasUsedReview(u)
           THEN UNCHANGED s_tasks
           ELSE /\ slot # 0
                /\ s_tasks' = [s_tasks EXCEPT ![slot] = [pc |-> "sending", user |-> u]]
        /\ UNCHANGED <<s_subs, s_used, s_handlers, outside_s>>

\* "await review_channel.send(embed=embed)" returns or raises
ReviewMessageSent(i, ok) ==
    /\ s_tasks[i].pc = "sending"
    /\ s_tasks' = [s_tasks EXCEPT ![i] = IF ok THEN [@ EXCEPT !.pc = "reacting"]
                                         ELSE NoTask]
    /\ UNCHANGED <<s_subs, s_used, s_handlers, s_commands, outside_s>>

\* the two "await review_message.add_reaction(...)" return, the submission
\* is recorded and the user marked as used; or one raises and nothing is
\* recorded
ReactionsAdded(i, ok) ==
    LET u == s_tasks[i].user
    IN  /\ s_tasks[i].pc = "reacting"
        /\ s_tasks' = [s_tasks EXCEPT ![i] = NoTask]
        /\ IF ok
           THEN /\ s_subs' = Append(s_subs, [user |-> u, status |-> "pending",
                                            reviewed_by |-> 0, posts |-> 0])
                /\ s_used' = s_used \cup {u}
           ELSE UNCHANGED <<s_subs, s_used>>
        /\ UNCHANGED <<s_handlers, s_commands, outside_s>>

\* on_reaction_add for a reviewer's reaction on the review message m of a
\* pending submission: handle_approval / handle_decline up to its first
\* await that suspends, the status being written before it
ReactionAdd(r, m, emoji) ==
    LET slot == FreeSlot(s_handlers, MaxReactionHandlers)
    IN  /\ m \in 1..Len(s_subs)
        /\ IsPending(s_subs[m].status)
        /\ slot # 0
        /\ s_subs' = [s_subs EXCEPT
              ![m].status = IF emoji = "yes" THEN "approved" ELSE "declined",
              ![m].reviewed_by = r]
        /\ s_handlers' = [s_handlers EXCEPT ![slot] =
              [pc |-> IF emoji = "yes" THEN "posting" ELSE "editing", msg |-> m]]
        /\ UNCHANGED <<s_used, s_tasks, s_commands, outside_s>>

\* "await approved_channel.send(embed=approved_embed)" returns or raises
ApprovedPosted(i, ok) ==
    LET m == s_handlers[i].msg
    IN  /\ s_handlers[i].pc = "posting"
        /\ s_subs' = IF ok THEN [s_subs EXCEPT ![m].posts = Min(@ + 1, MaxPosts)]
                     ELSE s_subs
        /\ s_handlers' = [s_handlers EXCEPT ![i] =
              IF ok THEN [@ EXCEPT !.pc = "editing"] ELSE NoHandler]
        /\ UNCHANGED <<s_used, s_tasks, s_commands, outside_s>>

\* "await message.edit(embed=updated_embed)" returns or raises
ReviewMessageEdited(i) ==
    /\ s_handlers[i].pc = "editing"
    /\ s_handlers' = [s_handlers EXCEPT ![i] = NoHandler]
    /\ UNCHANGED <<s_subs, s_used, s_tasks, s_commands, outside_s>>

NextReview ==
    \/ \E u \in Submitters : ReviewCommand(u)
    \/ \E i \in 1..MaxReviewTasks, ok \in BOOLEAN : ReviewMessageSent(i, ok)
    \/ \E i \in 1..MaxReviewTasks, ok \in BOOLEAN : ReactionsAdded(i, ok)
    \/ \E r \in Reviewers, m \in 1..MaxCommands, emoji \in {"yes", "no"} :
          ReactionAdd(r, m, emoji)
    \/ \E i \in 1..MaxReactionHandlers, ok \in BOOLEAN : ApprovedPosted(i, ok)
    \/ \E i \in 1..MaxReactionHandlers : ReviewMessageEdited(i)

(***************************************************************************)
(* YouTube notifications: YouTubeNotifications.check_youtube_feed           *)
(* (src/cogs/special/youtube_notifications.py)                              *)
(***************************************************************************)

Videos == {1, 2}

NoVideo == 0

\* polls that read the feed at most, notifications counted up to
MaxPolls == 4

MaxAnnounced == 2

\* is_new_video: latest_id != current_id and latest_id not in
\* self.posted_videos and published > current_time - 3600
IsNewVideo(latest_id, current_id, posted, stale) ==
    /\ latest_id # current_id
    /\ latest_id \notin posted
    /\ latest_id \notin stale

YInit ==
    /\ y_feed = NoVideo
    /\ y_stale = {}
    /\ y_latest = NoVideo
    /\ y_posted = {}
    /\ y_poll = [pc |-> "idle", video |-> NoVideo, new |-> FALSE]
    /\ y_announced = [v \in Videos |-> 0]
    /\ y_failed = {}
    /\ y_polls = 0

\* the first entry of the channel's feed becomes video v: an upload, or an
\* earlier video after the newest was taken down
FeedShows(v) ==
    /\ y_feed # v
    /\ y_feed' = v
    /\ UNCHANGED <<y_stale, y_latest, y_posted, y_poll, y_announced, y_failed,
                   y_polls, outside_y>>

\* an hour has passed since v was published
GrowsStale(v) ==
    /\ v \notin y_stale
    /\ y_stale' = y_stale \cup {v}
    /\ UNCHANGED <<y_feed, y_latest, y_posted, y_poll, y_announced, y_failed,
                   y_polls, outside_y>>

\* an iteration of check_youtube_feed reads the feed: a new video is tracked
\* (latest_video_id, posted_videos, save_config) and its notification is
\* awaited; otherwise the iteration ends
PollFeed ==
    LET new == IsNewVideo(y_feed, y_latest, y_posted, y_stale)
    IN  /\ y_poll.pc = "idle"
        /\ y_feed # NoVideo
        /\ y_polls < MaxPolls
        /\ y_polls' = y_polls + 1
        /\ y_poll' = [pc |-> IF new THEN "sending" ELSE "idle", video |-> y_feed,
                      new |-> new]
        /\ y_latest' = IF new THEN y_feed ELSE y_latest
        /\ y_posted' = IF new THEN y_posted \cup {y_feed} ELSE y_posted
        /\ UNCHANGED <<y_feed, y_stale, y_announced, y_failed, outside_y>>

\* "await discord_channel.send(...)" returns, or raises and the except
\* clause takes the video out of posted_videos again
NotificationSent(ok) ==
    LET v == y_poll.video
    IN  /\ y_poll.pc = "sending"
        /\ y_poll' = [y_poll EXCEPT !.pc = "idle"]
        /\ IF ok
           THEN /\ y_announced' = [y_announced EXCEPT ![v] = Min(@ + 1, MaxAnnounced)]
                /\ UNCHANGED <<y_posted, y_failed>>
           ELSE /\ y_posted' = y_posted \ {v}
                /\ y_failed' = y_failed \cup {v}
                /\ UNCHANGED y_announced
        /\ UNCHANGED <<y_feed, y_stale, y_latest, y_polls, outside_y>>

NextFeed ==
    \/ \E v \in Videos : FeedShows(v)
    \/ \E v \in Videos : GrowsStale(v)
    \/ PollFeed
    \/ \E ok \in BOOLEAN : NotificationSent(ok)

\* the cogs modelled after the limiters, at rest
MoreInit == PInit /\ CInit /\ EInit /\ SInit /\ YInit

CogInit == TInit /\ KInit /\ BQuiet /\ RInit /\ MoreInit

InitLedger == DInit /\ LInit /\ CogInit

SpecLedger == InitLedger /\ [][NextLedger]_vars

DispatchStep ==
    \/ \E resp \in Responses : EmbedAttempt(resp)
    \/ \E resp \in Responses : EmbedFinalAttempt(resp)
    \/ \E resp \in Responses : ResponseAttempt(resp)
    \/ \E resp \in Responses : ResponseFinalAttempt(resp)
    \/ EnterAttempt
    \/ GraceSleep

NextDispatch ==
    \/ \E h \in {"EmbedHandler", "ResponseHandler"}, op \in {"send", "edit"},
          mr \in (0..MaxRetriesArg) \cup {None} : SafeCall(h, op, mr)
    \/ DispatchStep

InitDispatch == DInit /\ LInit /\ CogInit

SpecDispatch == InitDispatch /\ [][NextDispatch]_vars

\* every awaited platform call answers and every sleep ends
FairSpecDispatch == SpecDispatch /\ WF_vars(DispatchStep)

(***************************************************************************)
(* Dispatcher: properties                                                  *)
(***************************************************************************)

InFlight == d_pc \in {"while", "attempt", "final"}

IsEmbed == d_handler = "EmbedHandler"

\* an HTTP 4xx other than 429 (a permission failure is the 403)
NonRetryable(resp) ==
    resp.kind = "http" /\ resp.status >= 400 /\ resp.status < 500 /\ resp.status # 429

\* this step is an attempt of the action (channel.send / message.edit)
AttemptStep == attempts' = attempts + 1

\* the outcome of an ended EmbedHandler call is one of the three, and matches
\* the answer to its last attempt
OutcomeIsOneOfThree ==
    /\ InFlight => d_outcome = "pending"
    /\ d_pc = "done" =>
          \/ /\ d_outcome = "returned"
             /\ d_last = OkResp
             /\ d_raised = NoResp
          \/ /\ d_outcome = "raised"
             /\ d_last.kind \in {"http", "exc"}
             /\ d_raised = d_last
          \/ /\ d_outcome = "none"
             /\ d_last.kind \in {"http", "exc"}
             /\ d_raised = NoResp
             /\ retry_attempts = max_retries
             /\ grace_sleeps = 1

C2_Original ==
    [][(AttemptStep /\ IsEmbed /\ d_op = "send" /\ NonRetryable(d_last'))
         => /\ d_pc' = "done"
            /\ d_outcome' = "raised"
            /\ d_raised' = d_last'
            /\ n_sleeps' = n_sleeps]_vars

\* C2 amended: an attempt inside safe_send's retry loop that fails with an
\* HTTP 4xx other than 429 ends the call at once with that error raised, no
\* sleep and no further attempt; on the final attempt after the grace sleep
\* the same error is swallowed and None is returned.
C2_NonRetryableRaisedInLoop ==
    [][(AttemptStep /\ IsEmbed /\ d_op = "send" /\ NonRetryable(d_last'))
         => /\ d_pc' = "done"
            /\ n_sleeps' = n_sleeps
            /\ IF d_pc = "attempt"
               THEN d_outcome' = "raised" /\ d_raised' = d_last'
               ELSE d_outcome' = "none" /\ d_raised' = NoResp]_vars

C2_Witness ==
    /\ IsEmbed /\ d_op = "send" /\ d_pc = "done" /\ d_outcome = "raised"
    /\ d_raised = HttpResp(403, NoHint) /\ attempts = 3 /\ n_sleeps = 2

C4_Original ==
    (/\ IsEmbed /\ d_pc = "done"
     /\ retried >= max_retries
     /\ RetryableKind(d_handler, d_last))
        => (d_outcome = "none" /\ d_raised = NoResp)

\* C4 amended: when 429 / 5xx failures have used up the retries
\* (retry_attempts = max_retries) and the final attempt fails too, the caller
\* receives None and no exception leaves the call; an unexpected exception in
\* the last retry slot (retry_attempts = max_retries - 1) is raised to the
\* caller instead.
C4_ExhaustedGivesNone ==
    /\ (IsEmbed /\ d_pc = "done" /\ retry_attempts = max_retries /\ d_last # OkResp)
          => (d_outcome = "none" /\ d_raised = NoResp)
    /\ (IsEmbed /\ d_pc = "done" /\ d_last = ExcResp /\ retry_attempts < max_retries)
          => (d_outcome = "raised" /\ d_raised = ExcResp
              /\ retry_attempts = max_retries - 1)

C4_Witness ==
    /\ IsEmbed /\ d_pc = "done" /\ d_outcome = "none"
    /\ d_last = HttpResp(429, NoHint) /\ retry_attempts = max_retries
    /\ max_retries = 3

\* this step handles a 429 inside the retry loop of EmbedHandler.safe_send
Step429 ==
    /\ AttemptStep /\ IsEmbed /\ d_op = "send" /\ d_pc = "attempt"
    /\ d_last'.kind = "http" /\ d_last'.status = 429

\* C5 as stated: a 429 makes safe_send sleep the server's retry-after and
\* retry, leaves the backoff delay unchanged and uses up no retry attempt.
C5_Original ==
    [][Step429 =>
         /\ d_pc' = "while"
         /\ last_sleep' = (IF d_last'.hint = NoHint THEN delay ELSE d_last'.hint)
         /\ delay' = delay
         /\ retry_attempts' = retry_attempts]_vars

\* C5 amended: a 429 makes safe_send sleep the server's retry-after (the
\* current delay when the header is missing) and retry, and leaves the backoff
\* delay unchanged, but it does use up one of the max_retries retry attempts,
\* which are shared with the transient errors.
C5_429KeepsDelayCountsAttempt ==
    [][Step429 =>
         /\ d_pc' = "while"
         /\ last_sleep' = (IF d_last'.hint = NoHint THEN delay ELSE d_last'.hint)
         /\ delay' = delay
         /\ delays_used' = delays_used
         /\ retry_attempts' = retry_attempts + 1]_vars

C5_Witness ==
    /\ IsEmbed /\ d_op = "send" /\ d_pc = "while"
    /\ d_last = HttpResp(429, 45) /\ sleep_kind = "retry_after"
    /\ delay = 4 /\ retry_attempts = 3 /\ delays_used = <<1, 2>>

\* the latest answer was a 429 and the call has slept for it
After429 ==
    /\ d_pc \in {"while", "attempt"}
    /\ d_last.kind = "http" /\ d_last.status = 429

C7_Hint45Delay2Waits45 ==
    (IsEmbed /\ d_op = "send" /\ After429 /\ d_last.hint = 45 /\ delay_at_sleep = 2)
        => (last_sleep = 45 /\ sleep_kind = "retry_after")

C7_Witness ==
    /\ IsEmbed /\ d_op = "send" /\ d_pc = "attempt" /\ d_last = HttpResp(429, 45)
    /\ delay_at_sleep = 2 /\ last_sleep = 45 /\ attempts = 2

BackoffSequence == <<1, 2, 4, 8, 16, 32, 60, 60>>

ExpectedDelay(i) == IF i <= Len(BackoffSequence) THEN BackoffSequence[i] ELSE 60

\* C8: the delays EmbedHandler sleeps over consecutive transient failures are
\* 1, 2, 4, 8, 16, 32, 60, 60 (then 60), each the previous one times 2 capped
\* at 60, and the current delay is the next one of that sequence.
C8_BackoffSequence ==
    IsEmbed =>
        /\ \A i \in 1..Len(delays_used) : delays_used[i] = ExpectedDelay(i)
        /\ d_pc # "idle" => delay = ExpectedDelay(Len(delays_used) + 1)

C8_Witness ==
    /\ IsEmbed /\ delays_used = <<1, 2, 4, 8, 16, 32, 60, 60>>
    /\ retried = 8 /\ d_last = HttpResp(503, NoHint)

OtherStatsUnchanged(keys) ==
    \A k \in DOMAIN stats : k \notin keys => stats'[k] = stats[k]

\* this step is an attempt of EmbedHandler.safe_send / safe_edit
EmbedAttemptStep == AttemptStep /\ IsEmbed

\* C9 as stated: every outcome of an attempt updates a counter: a success
\* messages_sent / messages_edited, a 429 rate_limit_hits, a 5xx, a
\* non-retryable error and the final exhaustion errors.
C9_Original ==
    [][EmbedAttemptStep =>
         /\ d_last' = OkResp =>
               stats'[SuccessKey(d_op)] = stats[SuccessKey(d_op)] + 1
         /\ (d_last'.kind = "http" /\ d_last'.status = 429 /\ d_pc = "attempt") =>
               stats'.rate_limit_hits = stats.rate_limit_hits + 1
         /\ (d_last'.kind = "http" /\ d_last'.status >= 500 /\ d_pc = "attempt") =>
               stats'.errors = stats.errors + 1
         /\ NonRetryable(d_last') => stats'.errors = stats.errors + 1
         /\ (d_pc = "final" /\ d_last' # OkResp) =>
               stats'.errors = stats.errors + 1]_vars

\* C9 amended: every attempt that ends the call updates a counter, and so does
\* an unexpected exception: a success increments messages_sent (safe_send) or
\* messages_edited (safe_edit), a non-retryable error, an unexpected exception
\* and a failed final attempt each increment errors; a 429 and a 5xx that are
\* retried inside the loop change no counter.
C9_CountersPerOutcome ==
    [][EmbedAttemptStep =>
         /\ d_last' = OkResp =>
               /\ stats'.messages_sent =
                     stats.messages_sent + (IF d_op = "send" THEN 1 ELSE 0)
               /\ stats'.messages_edited =
                     stats.messages_edited + (IF d_op = "edit" THEN 1 ELSE 0)
               /\ OtherStatsUnchanged({"messages_sent", "messages_edited"})
         /\ (d_last' # OkResp /\ (d_pc' = "done" \/ d_last' = ExcResp)) =>
               /\ stats'.errors = stats.errors + 1
               /\ OtherStatsUnchanged({"errors"})
         /\ (d_pc = "attempt" /\ d_last'.kind = "http"
               /\ (d_last'.status = 429 \/ d_last'.status >= 500)) =>
               /\ d_pc' = "while"
               /\ stats' = stats]_vars

C9_Witness ==
    /\ IsEmbed /\ d_pc = "done" /\ d_op = "edit" /\ d_outcome = "returned"
    /\ attempts = 3 /\ d_raised = NoResp
    /\ stats = [stats0 EXCEPT !.messages_edited = 1, !.errors = 1]


(***************************************************************************)
(* Rate limit ledger: properties                                           *)
(***************************************************************************)

\* C10: for every user, the check that finds exactly user_limit (10) attempts
\* recorded within the window (and no block in force) returns
\* (True, "user_limit", block_duration); the same user's next check, made
\* block_duration + 1 seconds later or more with nothing done in between,
\* returns (False, "", 0).
C10_LimitThenFreeAfterBlock ==
    /\ (/\ l_last.user \in Users
        /\ l_last.n_user = 10 /\ l_last.n_fresh = 10
        /\ ~l_last.ublocked /\ ~l_last.cblocked)
          => l_last.res = Result(TRUE, "user_limit", 300)
    /\ (/\ l_last.user \in Users
        /\ l_last.prev_hit >= 0
        /\ l_last.at >= l_last.prev_hit + Secs(300 + 1))
          => l_last.res = Result(FALSE, "", 0)

C10_Witness ==
    /\ l_last.user \in Users
    /\ l_last.prev_hit >= 0
    /\ l_last.at = l_last.prev_hit + Secs(301)
    /\ l_last.res = Result(FALSE, "", 0)
    /\ l_last.user \notin DOMAIN blocked_users
    /\ user_requests[l_last.user] = <<now>>

(***************************************************************************)
(* Rate limit ledger under load: RateLimitManager met in a busy minute,     *)
(* with windows at or next to their limits and blocks in force or expired.  *)
(***************************************************************************)

\* the instant the loaded ledger is met at (seconds)
LoadedAt == 330

\* the window lengths the loaded ledger is met with
LoadedUserLens == {9, 10}

LoadedChannelLens == {29, 30}

LoadedGlobalLens == {100, 499, 500}

\* n requests recorded at time t
Recorded(n, t) == [i \in 1..n |-> t]

\* a user's window and block entry: a window short of the limit or just at it,
\* a block set a second ago on a full window, or a block half a second
\* before the end of its duration (the window long purged)
LoadedKinds == {"open", "blocked", "ending"}

LoadedWindow(kind, n, t) ==
    IF kind = "ending" THEN <<>> ELSE Recorded(n, t - Secs(2))

LoadedBlock(kind, t) ==
    IF kind = "blocked" THEN t - Secs(1) ELSE t - Secs(block_duration) + 1

LLoaded ==
    /\ now = Secs(LoadedAt)
    /\ next_cleanup = Secs(LoadedAt + 30)
    /\ sec_ticks = 0
    /\ l_last = NoCheck
    /\ l_hit = [u \in Users |-> NoHit]
    /\ \E uk \in [Users -> LoadedKinds], un \in [Users -> LoadedUserLens],
          ck \in [Channels -> LoadedKinds], cn \in [Channels -> LoadedChannelLens],
          gn \in LoadedGlobalLens :
          /\ \A u \in Users : uk[u] = "blocked" => UserOverLimit(un[u])
          /\ \A c \in Channels : ck[c] = "blocked" => ChannelOverLimit(cn[c])
          /\ user_requests =
                [u \in {x \in Users : uk[x] \in {"open", "blocked"}} |->
                    LoadedWindow(uk[u], un[u], now)]
          /\ channel_requests =
                [c \in {x \in Channels : ck[x] \in {"open", "blocked"}} |->
                    LoadedWindow(ck[c], cn[c], now)]
          /\ global_requests = Recorded(gn, now - Secs(2))
          /\ blocked_users =
                [u \in {x \in Users : uk[x] # "open"} |-> LoadedBlock(uk[u], now)]
          /\ blocked_channels =
                [c \in {x \in Channels : ck[x] # "open"} |-> LoadedBlock(ck[c], now)]

\* the traffic meets the loaded ledger before its next cleanup pass is due
LoadedTurn == now < Secs(LoadedAt + 30)

NextLoaded ==
    \/ \E u \in Users, c \in Channels : LoadedTurn /\ SendEmbed(u, c)
    \/ TickSecond
    \/ TickToCleanup
    \/ Cleanup

InitLoaded == DInit /\ LLoaded /\ CogInit

SpecLoaded == InitLoaded /\ [][NextLoaded]_vars

InitTickets == DInit /\ LInit /\ CogInit

SpecTickets == InitTickets /\ [][NextTickets]_vars

\* the ticket cog with the claim button, started on a config file or without
NextStore ==
    \/ NextTickets
    \/ \E a \in Actors, t \in Tickets : ClaimPress(a, t)

InitStore == DInit /\ LInit /\ TInit /\ (KInit \/ KFresh) /\ BQuiet /\ RInit /\ MoreInit

InitBoot == DInit /\ LInit /\ TInit /\ KInit /\ BInit /\ RInit /\ MoreInit

SpecBoot == InitBoot /\ [][NextBoot]_vars

SpecLimiters == InitDispatch /\ [][NextLimiters]_vars

SpecTasks == InitDispatch /\ [][NextTasks]_vars

SpecCreate == InitDispatch /\ [][NextCreate]_vars

SpecCache == InitDispatch /\ [][NextCache]_vars

SpecReview == InitDispatch /\ [][NextReview]_vars

SpecFeed == InitDispatch /\ [][NextFeed]_vars

SpecStore == InitStore /\ [][NextStore]_vars

\* the steps the cog takes by itself: a sleeping confirm_close wakes, an
\* awaited channel delete answers
StoreStep ==
    \/ \E i \in 1..MaxConfirms : ConfirmWake(i)
    \/ \E i \in 1..MaxConfirms, ok \in BOOLEAN : ConfirmDeleteDone(i, ok)

\* time passes and the cog takes its steps
FairSpecStore ==
    SpecStore /\ WF_vars(StoreStep) /\ WF_vars(\E o \in KOffsets : KAdvance(o))

InitTempVoice == DInit /\ LInit /\ CogInit

SpecCooldown == InitTempVoice /\ [][NextCooldown]_vars

SpecReclaim == InitTempVoice /\ [][NextReclaim]_vars

SpecSetup == InitTempVoice /\ [][NextSetup]_vars

\* every awaited platform call answers, and the scan task runs while it lives
FairSpecReclaim ==
    SpecReclaim /\ WF_vars(ListenerStep) /\ WF_vars(ScanStep)

\* the ledger as a check of (u, c) finds it
UserBlockedNow(u) ==
    u \in DOMAIN blocked_users /\ BlockActive(blocked_users[u], now)

ChannelBlockedNow(c) ==
    c \in DOMAIN blocked_channels /\ BlockActive(blocked_channels[c], now)

UserCount(u) == IF u \in DOMAIN user_requests THEN Len(user_requests[u]) ELSE 0

ChannelCount(c) ==
    IF c \in DOMAIN channel_requests THEN Len(channel_requests[c]) ELSE 0

\* C11: is_rate_limited evaluates user block, channel block, user count,
\* channel count, global count in this order and reports the first that
\* applies; with user and channel counts both at their limits the result is
\* "user_limit" and only the user block entry is set; with channel and global
\* counts both at their limits the result is "channel_limit".
C11_FixedEvaluationOrder ==
    [][\A u \in Users, c \in Channels : SendEmbed(u, c) =>
        /\ UserBlockedNow(u) => l_last'.res.kind = "user_blocked"
        /\ (~UserBlockedNow(u) /\ ChannelBlockedNow(c))
              => l_last'.res.kind = "channel_blocked"
        /\ (/\ ~UserBlockedNow(u) /\ ~ChannelBlockedNow(c)
            /\ UserCount(u) >= 10 /\ ChannelCount(c) >= 30)
              => /\ l_last'.res.kind = "user_limit"
                 /\ u \in DOMAIN blocked_users' /\ blocked_users'[u] = now
                 /\ c \notin DOMAIN blocked_channels'
        /\ (/\ ~UserBlockedNow(u) /\ ~ChannelBlockedNow(c)
            /\ UserCount(u) < 10
            /\ ChannelCount(c) >= 30 /\ Len(global_requests) >= 500)
              => /\ l_last'.res.kind = "channel_limit"
                 /\ c \in DOMAIN blocked_channels' /\ blocked_channels'[c] = now
                 /\ u \notin DOMAIN blocked_users'
        /\ (/\ ~UserBlockedNow(u) /\ ~ChannelBlockedNow(c)
            /\ UserCount(u) < 10 /\ ChannelCount(c) < 30
            /\ Len(global_requests) >= 500)
              => l_last'.res.kind = "global_limit"
      ]_vars

\* one user answered "user_limit" on a full channel that stayed unblocked, and
\* then another answered "channel_limit" on it with the global window full
C11_Witness ==
    /\ l_last.res.kind = "channel_limit"
    /\ Len(global_requests) >= 500
    /\ \E u \in Users :
          /\ u # l_last.user
          /\ l_hit[u] # NoHit /\ l_hit[u] <= l_last.at
          /\ u \in DOMAIN blocked_users /\ blocked_users[u] = l_hit[u]
    /\ l_last.chan \in DOMAIN blocked_channels
    /\ blocked_channels[l_last.chan] = l_last.at
    /\ l_last.user \notin DOMAIN blocked_users

(***************************************************************************)
(* Temporary voice channels: properties                                    *)
(***************************************************************************)

\* the time since member m's last creation, m having a cooldown entry
SinceCreation(m) == tv_now - user_cooldowns[m]

\* the invocation that this step starts is about to create a channel for m
StartsCreating(m) ==
    \E i \in 1..MaxListeners :
        /\ v_frames[i].pc = "free"
        /\ v_frames'[i].pc = "creating" /\ v_frames'[i].member = m

\* this step rejects m's join of the create-channel and creates nothing
RejectsJoin(m) ==
    /\ tv_last'.member = m /\ tv_last'.rejected
    /\ v_frames' = v_frames /\ v_created' = v_created /\ v_exists' = v_exists
    /\ temp_channels' = temp_channels /\ user_cooldowns' = user_cooldowns
    /\ v_loc'[m] = NoChannel

\* C12 as stated: a join of the create-channel t < 300 s after the member's
\* last creation is rejected with remaining = 300 - t and creates no channel
\* (200 at t = 100); a join at t >= 300 (301) goes on to create.
C12_Original ==
    [][\A m \in Creators :
        (VoiceStateUpdate(m, SetupId) /\ m \in DOMAIN user_cooldowns) =>
            /\ SinceCreation(m) < Secs(300)
                  => /\ RejectsJoin(m)
                     /\ Secs(tv_last'.remaining) = Secs(300) - SinceCreation(m)
            /\ SinceCreation(m) >= Secs(300)
                  => ~tv_last'.rejected /\ StartsCreating(m)
      ]_vars

\* C12: a join of the create-channel t < 300 s after the member's last
\* creation is rejected, creates no channel and reports the whole seconds of
\* 300 - t (200 at t = 100, 0 at t = 299.5); a join at t >= 300 (301) goes
\* on to create.
C12_CooldownRejectsWithWholeSeconds ==
    [][\A m \in Creators :
        (VoiceStateUpdate(m, SetupId) /\ m \in DOMAIN user_cooldowns) =>
            /\ SinceCreation(m) < Secs(300)
                  => /\ RejectsJoin(m)
                     /\ Secs(tv_last'.remaining) <= Secs(300) - SinceCreation(m)
                     /\ Secs(300) - SinceCreation(m) < Secs(tv_last'.remaining + 1)
            /\ SinceCreation(m) = Secs(100) => tv_last'.remaining = 200
            /\ SinceCreation(m) >= Secs(300)
                  => ~tv_last'.rejected /\ StartsCreating(m)
      ]_vars

\* the owner created at t = 0 and is turned away at t = 100 with 200 s left
C12_Witness ==
    /\ Len(v_created) = 1 /\ v_created[1].at = Secs(Epoch)
    /\ v_created[1].owner \in DOMAIN user_cooldowns
    /\ user_cooldowns[v_created[1].owner] = Secs(Epoch)
    /\ tv_now = Secs(Epoch + 100)
    /\ tv_last.member = v_created[1].owner
    /\ tv_last.rejected /\ tv_last.remaining = 200
    /\ v_loc[tv_last.member] = NoChannel

\* C13: under every interleaving of voice-state events, and as long as no
\* administrator removes the cooldown, one owner never gets two temporary
\* voice channels provisioned less than 300 s apart.
C13_NoTwoChannelsWithinCooldown ==
    \A i, j \in 1..Len(v_created) :
        (/\ i < j
         /\ v_created[i].owner = v_created[j].owner
         /\ v_created[i].owner \notin v_removed)
            => v_created[j].at - v_created[i].at >= Secs(300)

\* channel c is registered and nobody is in it
RegisteredAndEmpty(c) == c \in DOMAIN temp_channels /\ Occupants(c, v_loc) = {}

\* channel c is gone from the platform and from the registry
Reclaimed(c) == c \notin v_exists /\ c \notin DOMAIN temp_channels

\* C14: a registered channel that a scan found empty is reclaimed in that
\* scan: once the scan's step for it has ended its audit event is emitted,
\* the platform channel is deleted and its entry is removed from
\* temp_channels; no state has the event emitted by a scan step that ended
\* with the channel still registered.
C14_ScanReclaimsWhatItAudits ==
    \A c \in scan.ended : Count(v_audit, c) >= 1 /\ Reclaimed(c)

\* C15: for every temporary voice channel id, across all interleavings of
\* the periodic scan and the voice-state listener, the platform delete is
\* issued at most once and the temp_channel_deleted event is emitted at
\* most once.
C15_DeleteAndAuditAtMostOnce ==
    \A c \in TempIds : Count(v_deletes, c) <= 1 /\ Count(v_audit, c) <= 1

\* C19: every registered temporary voice channel that becomes and stays
\* empty is eventually reclaimed, whatever earlier platform delete calls
\* answered.
C19_EmptyChannelEventuallyReclaimed ==
    \A c \in TempIds :
        RegisteredAndEmpty(c) ~> (Reclaimed(c) \/ Occupants(c, v_loc) # {})

(***************************************************************************)
(* Tickets: properties                                                     *)
(***************************************************************************)

\* the registry, the statistics and the audit trail of the tickets
TicketState == <<active_tickets, kstats, k_audit>>

\* C16: reclaiming a ticket id that is no longer in active_tickets is a
\* no-op: a confirm_close or an on_guild_channel_delete for such an id
\* changes no registry or statistics state and emits no second audit event.
C16_ReclaimIsIdempotent ==
    [][/\ \A v \in 1..MaxViews, ok \in BOOLEAN :
            (/\ v <= Len(k_views)
             /\ k_views[v].ticket \notin DOMAIN active_tickets
             /\ ConfirmPress(v, ok)) => UNCHANGED TicketState
       /\ \A i \in 1..MaxConfirms :
            (/\ k_frames[i].ticket \notin DOMAIN active_tickets
             /\ ConfirmWake(i)) => UNCHANGED TicketState
       /\ \A t \in Tickets :
            (t \notin DOMAIN active_tickets /\ GuildChannelDelete(t))
                => UNCHANGED TicketState
      ]_vars

\* this step is the Confirm-driven removal of ticket t's entry
ConfirmRemoves(t) ==
    \E i \in 1..MaxConfirms :
        /\ k_frames[i].pc = "sleeping" /\ k_frames[i].ticket = t
        /\ k_frames'[i].pc = "deleting"

\* this step is the Confirm-driven deletion of ticket t's channel
ConfirmDeletes(t) ==
    \E i \in 1..MaxConfirms :
        /\ k_frames[i].pc = "deleting" /\ k_frames[i].ticket = t
        /\ k_frames'[i].pc = "free"

\* C17: no ticket is reclaimed through the close path without a
\* confirmation. A Close press only opens a confirmation view; a closing
\* starts only with a Confirm on a view that has not timed out (30 s, for
\* the first press counted from the Close press); only such a closing
\* removes the entry from active_tickets and deletes the channel; a Cancel
\* and the passing of time leave the entry, its claimant and the statistics
\* as they were.
C17_CloseNeedsTimelyConfirm ==
    [][/\ ((\E a \in Actors, t \in Tickets : ClosePress(a, t))
            \/ (\E v \in 1..MaxViews : v <= Len(k_views) /\ CancelPress(v))
            \/ (\E o \in KOffsets : KAdvance(o)))
              => UNCHANGED <<active_tickets, kstats, k_audit, k_exists, k_frames>>
       /\ \A i \in 1..MaxConfirms :
            (k_frames[i].pc = "free" /\ k_frames'[i].pc # "free")
              => \E v \in 1..Len(k_views) :
                    /\ k_views[v].ticket = k_frames'[i].ticket
                    /\ k_views[v].state = "open"
                    /\ k_frames'[i].pressed = k_now
                    /\ k_now < k_views[v].base + Secs(confirm_timeout)
                    /\ k_views[v].base = k_views[v].opened
                          => k_now < k_views[v].opened + Secs(confirm_timeout)
       /\ \A t \in Tickets :
            (t \in DOMAIN active_tickets /\ t \notin DOMAIN active_tickets')
              => (ConfirmRemoves(t) \/ GuildChannelDelete(t))
       /\ \A t \in Tickets :
            (t \in k_exists /\ t \notin k_exists')
              => (ConfirmDeletes(t) \/ GuildChannelDelete(t))
      ]_vars

\* a confirmation that nobody confirmed has timed out and the ticket is as
\* it was
C17_Witness ==
    /\ Len(k_views) = 1 /\ k_views[1].state = "open"
    /\ k_views[1].opened = Secs(Epoch) /\ k_views[1].base = Secs(Epoch)
    /\ k_now = Secs(Epoch + 30)
    /\ k_presses = 0
    /\ k_views[1].ticket \in DOMAIN active_tickets
    /\ k_views[1].ticket \in k_exists
    /\ kstats.tickets_closed = 0

\* the actors that may close a ticket with the data d
MayClose(d) == {d.user_id, d.claimed_by} \cup Privileged

\* C18: a Close press by an actor who is neither the ticket's owner, nor its
\* claimant, nor a holder of manage_channels or administrator is turned away
\* and changes nothing; every confirmation view belongs to an allowed actor,
\* and every ticket closed was closed on the request of one.
C18_OnlyAllowedActorsClose ==
    /\ [](/\ \A v \in 1..Len(k_views) :
                k_views[v].ticket \in DOMAIN active_tickets
                  => k_views[v].actor \in MayClose(active_tickets[k_views[v].ticket])
                       \ {NoActor}
          /\ \A t \in DOMAIN k_closed :
                k_closed[t].by \in MayClose(k_closed[t].data) \ {NoActor})
    /\ [][\A a \in Actors, t \in Tickets :
            (/\ ClosePress(a, t)
             /\ a \notin MayClose(active_tickets[t]))
                => /\ k_last' = a
                   /\ UNCHANGED <<active_tickets, kstats, k_audit, k_exists,
                                  k_frames, k_views, k_closed>>
         ]_vars

\* the user who is neither owner nor claimant nor privileged was turned away
C18_Witness ==
    /\ k_last = 2
    /\ k_views = <<>>
    /\ \A t \in Tickets : t \in DOMAIN active_tickets /\ t \in k_exists
    /\ kstats.tickets_closed = 0

Fresh(q, t) == \A i \in 1..Len(q) : t - q[i] <= Secs(cleanup_window)

\* the block table b holds no entry that is block_duration old or older
NoneExpired(b, t) == \A k \in DOMAIN b : t - b[k] < Secs(block_duration)

\* C24: between the maintenance passes every timestamp stored in a user,
\* channel or global window is at most 60 s old, and the count a check
\* compares with the user limit is the count of the timestamps inside the
\* window.
C24_WindowsHoldOnlyFreshTimestamps ==
    now < next_cleanup =>
        /\ \A u \in DOMAIN user_requests : Fresh(user_requests[u], now)
        /\ \A c \in DOMAIN channel_requests : Fresh(channel_requests[c], now)
        /\ Fresh(global_requests, now)
        /\ l_last.n_user = l_last.n_fresh

\* C25 as stated: no state holds a block entry that is block_duration old
\* or older.
C25_Original ==
    NoneExpired(blocked_users, now) /\ NoneExpired(blocked_channels, now)

\* C25: a block entry that is block_duration old or older never outlives a
\* maintenance pass, nor a check that reaches it (the user's entry in every
\* check of that user, the channel's entry in every check of that channel
\* whose user is not blocked), and it never yields a blocked answer.
C25_ExpiredEntriesGoLazily ==
    [][/\ Cleanup => /\ NoneExpired(blocked_users', now)
                     /\ NoneExpired(blocked_channels', now)
       /\ \A u \in Users, c \in Channels : SendEmbed(u, c) =>
            /\ u \in DOMAIN blocked_users' =>
                    now - blocked_users'[u] < Secs(block_duration)
            /\ (l_last'.res.kind # "user_blocked" /\ c \in DOMAIN blocked_channels')
                    => now - blocked_channels'[c] < Secs(block_duration)
            /\ (u \in DOMAIN blocked_users
                    /\ now - blocked_users[u] >= Secs(block_duration))
                    => l_last'.res.kind # "user_blocked"
            /\ (c \in DOMAIN blocked_channels
                    /\ now - blocked_channels[c] >= Secs(block_duration))
                    => l_last'.res.kind # "channel_blocked"
      ]_vars

\* a check has just removed the expired entry of its user while the expired
\* entry of another user is still in the table
C25_Witness ==
    /\ l_last.at = now /\ l_last.uentry /\ ~l_last.ublocked
    /\ l_last.user \notin DOMAIN blocked_users
    /\ \E v \in DOMAIN blocked_users :
          v # l_last.user /\ now - blocked_users[v] >= Secs(block_duration)

\* C26: while a user's block is younger than block_duration every check of
\* the user answers (True, "user_blocked", started + block_duration - now)
\* and leaves the entry as it is; a check at or after expiry clears the
\* entry and does not answer "user_blocked". The same for a channel's block
\* in the checks whose user is not blocked.
C26_BlockReportedUntilExpiry ==
    [][\A u \in Users, c \in Channels : SendEmbed(u, c) =>
        /\ (u \in DOMAIN blocked_users
                /\ now - blocked_users[u] < Secs(block_duration))
              => /\ l_last'.res.limited /\ l_last'.res.kind = "user_blocked"
                 /\ Secs(l_last'.res.retry) =
                        blocked_users[u] + Secs(block_duration) - now
                 /\ u \in DOMAIN blocked_users'
                 /\ blocked_users'[u] = blocked_users[u]
        /\ (u \in DOMAIN blocked_users
                /\ now - blocked_users[u] >= Secs(block_duration))
              => /\ l_last'.res.kind # "user_blocked"
                 /\ u \in DOMAIN blocked_users' => blocked_users'[u] = now
        /\ (/\ u \notin DOMAIN blocked_users
            /\ c \in DOMAIN blocked_channels
            /\ now - blocked_channels[c] < Secs(block_duration))
              => /\ l_last'.res.limited /\ l_last'.res.kind = "channel_blocked"
                 /\ Secs(l_last'.res.retry) =
                        blocked_channels[c] + Secs(block_duration) - now
                 /\ c \in DOMAIN blocked_channels'
                 /\ blocked_channels'[c] = blocked_channels[c]
      ]_vars

\* nothing but the global window is at its limit for a check of (u, c)
OnlyGlobalAtLimit(u, c) ==
    /\ u \notin DOMAIN blocked_users /\ c \notin DOMAIN blocked_channels
    /\ UserCount(u) < 10 /\ ChannelCount(c) < 30
    /\ Len(global_requests) >= 500

\* the block table b2 holds no entry that b1 does not hold
NoNewBlock(b1, b2) ==
    \A k \in DOMAIN b2 : k \in DOMAIN b1 /\ b2[k] = b1[k]

\* C27: a check that finds only the global window at its limit answers
\* (True, "global_limit", 60), records nothing and leaves blocked_users and
\* blocked_channels unchanged; no check answering "global_limit" adds or
\* restarts a block entry.
C27_GlobalLimitSetsNoBlock ==
    [][\A u \in Users, c \in Channels : SendEmbed(u, c) =>
        /\ OnlyGlobalAtLimit(u, c)
              => /\ l_last'.res = Result(TRUE, "global_limit", 60)
                 /\ UNCHANGED <<blocked_users, blocked_channels, global_requests>>
        /\ l_last'.res.kind = "global_limit"
              => /\ l_last'.res.retry = 60
                 /\ NoNewBlock(blocked_users, blocked_users')
                 /\ NoNewBlock(blocked_channels, blocked_channels')
      ]_vars

\* a check was answered "global_limit" and neither its user nor its channel
\* is blocked
C27_Witness ==
    /\ l_last.res = Result(TRUE, "global_limit", 60)
    /\ l_last.at = now
    /\ Len(global_requests) >= 500
    /\ ~l_last.uentry
    /\ l_last.user \notin DOMAIN blocked_users
    /\ l_last.chan \notin DOMAIN blocked_channels

\* C28: right after a pass of _cleanup_task no window holds a timestamp
\* older than 60 s, no user or channel key with an empty window remains, and
\* no block entry is block_duration old or older.
C28_CleanLedgerAfterEachPass ==
    [][Cleanup =>
        /\ \A u \in DOMAIN user_requests' :
              user_requests'[u] # <<>> /\ Fresh(user_requests'[u], now)
        /\ \A c \in DOMAIN channel_requests' :
              channel_requests'[c] # <<>> /\ Fresh(channel_requests'[c], now)
        /\ Fresh(global_requests', now)
        /\ NoneExpired(blocked_users', now)
        /\ NoneExpired(blocked_channels', now)
      ]_vars

\* a pass has just dropped a user's block set 300 s ago or earlier, and the
\* user's window with it
C28_Witness ==
    /\ next_cleanup = now + Secs(cleanup_window)
    /\ \E u \in Users :
          /\ l_hit[u] # NoHit /\ now - l_hit[u] >= Secs(block_duration)
          /\ u \notin DOMAIN blocked_users
          /\ u \notin DOMAIN user_requests

(***************************************************************************)
(* Dispatch after a recorded attempt: send_*_embed, then safe_send          *)
(***************************************************************************)

\* the task running safe_send is cancelled while it sleeps between attempts
\* (a backoff or retry-after sleep, or the grace sleep): CancelledError is not
\* an Exception, no handler of safe_send catches it and the call ends there
Cancel ==
    /\ d_pc \in {"while", "final"}
    /\ n_sleeps > 0
    /\ d_pc' = "done"
    /\ d_outcome' = "cancelled"
    /\ d_raised' = NoResp
    /\ UNCHANGED <<d_handler, d_op, max_retries, retry_attempts, delay, stats,
                   d_last, attempts, last_sleep, sleep_kind, delay_at_sleep,
                   delays_used, grace_sleeps, n_sleeps, retried, calls,
                   lvars, cogvars>>

\* the max_retries a caller of send_*_embed passes on to safe_send
SendRetryArgs == {None, 0, 2}

\* send_*_embed of (u, c) before any dispatch is followed
CheckAndRecord(u, c) ==
    /\ d_pc = "idle"
    /\ Turn(u)
    /\ SendEmbed(u, c)

\* "return await self.safe_send(ctx.channel, embed=embed, **kwargs)" of the
\* send_*_embed whose attempt was recorded last
DispatchRecorded(mr) ==
    /\ d_pc = "idle"
    /\ l_last # NoCheck
    /\ ~l_last.res.limited
    /\ SafeCall("EmbedHandler", "send", mr)

RecordedStep ==
    \/ \E resp \in Responses : EmbedAttempt(resp)
    \/ \E resp \in Responses : EmbedFinalAttempt(resp)
    \/ EnterAttempt
    \/ GraceSleep

NextRecorded ==
    \/ \E u \in Users, c \in Channels : CheckAndRecord(u, c)
    \/ \E mr \in SendRetryArgs : DispatchRecorded(mr)
    \/ RecordedStep
    \/ Cancel

SpecRecorded == InitDispatch /\ [][NextRecorded]_vars

\* sorted, from 0 to the cap
WithinCap(ds) ==
    /\ \A i \in 1..Len(ds) : 0 <= ds[i] /\ ds[i] <= max_delay
    /\ \A i, j \in 1..Len(ds) : i <= j => ds[i] <= ds[j]

\* C29: in every dispatcher retry loop and for every max_retries the backoff
\* delays slept are never negative, never decrease from one attempt to the
\* next and never exceed the cap of 60 s.
C29_BackoffWithinCap == WithinCap(delays_used)

Last(q) == q[Len(q)]

\* the attempt of the last check is the newest entry of its windows
AttemptOnRecord ==
    /\ ~l_last.res.limited
    /\ l_last.user \in DOMAIN user_requests
    /\ user_requests[l_last.user] # <<>>
    /\ Last(user_requests[l_last.user]) = l_last.at
    /\ l_last.chan \in DOMAIN channel_requests
    /\ channel_requests[l_last.chan] # <<>>
    /\ Last(channel_requests[l_last.chan]) = l_last.at
    /\ global_requests # <<>>
    /\ Last(global_requests) = l_last.at

\* C30: no step of safe_send, from its start to its end, changes the
\* ledger, nor does its cancellation during a sleep between attempts: the
\* windows and the block entries stay as send_*_embed left them when it
\* recorded the attempt, which remains on record.
C30_DispatchLeavesLedgerAlone ==
    /\ [](d_pc # "idle" => AttemptOnRecord)
    /\ [][((\E mr \in SendRetryArgs : DispatchRecorded(mr))
             \/ RecordedStep \/ Cancel)
            => UNCHANGED <<user_requests, channel_requests, global_requests,
                           blocked_users, blocked_channels>>]_vars

\* a dispatch was cancelled in the backoff sleep after a failed attempt and
\* the attempt recorded before it is still the newest of a window of three
C30_Witness ==
    /\ d_pc = "done" /\ d_outcome = "cancelled"
    /\ sleep_kind = "backoff" /\ attempts >= 1
    /\ AttemptOnRecord
    /\ Len(user_requests[l_last.user]) = 3

(***************************************************************************)
(* Ticket config: persistence                                              *)
(***************************************************************************)

\* the config file holds what the cog holds in memory
Synced ==
    k_writes.file /\ k_writes.disk = Config(active_tickets, kstats)

\* C21: whenever the config file differs from the in-memory config, then
\* with time passing and no further operation it comes to equal it: a write
\* suppressed by the throttle is made later, the defaults of a first start
\* included.
C21_DiskCatchesUp == (~Synced) ~> Synced

(***************************************************************************)
(* Store files: loading                                                    *)
(***************************************************************************)

\* C22: for both stores, a constructor that finds an unreadable or corrupt
\* file does not raise: it keeps the bad file under another name and
\* reinitialises the in-memory state to the defaults.
C22_CorruptFileSetAside ==
    \A s \in Stores :
        (b_files[s] \in Corrupt /\ b_boot[s] # NotBooted)
            => /\ b_boot[s].result = "defaults"
               /\ b_boot[s].aside

(***************************************************************************)
(* Limiters in front of an action: properties                              *)
(***************************************************************************)

\* invocations whose check has passed and whose attempt is not recorded yet
Unrecorded(pc) == {i \in 1..MaxHandlers : r_frames[i].pc = pc}

\* no pass of ps has more than limit - 1 passes before it within window
AtMost(ps, limit, window) ==
    \A j \in 1..Len(ps) :
        Cardinality({i \in 1..j : ps[j] - ps[i] < Secs(window)}) <= limit

\* C23: for one actor, between a passed check and the recording of its
\* attempt no other check of the actor takes place, at the ticket-creation
\* button and at /tempchannel; so the actor passes at most 3 ticket checks
\* within 300 s and at most one /tempchannel check within 30 s.
C23_CheckThenRecordUninterrupted ==
    /\ Cardinality(Unrecorded("creating")) <= 1
    /\ Cardinality(Unrecorded("tc_deferring")) <= 1
    /\ AtMost(r_passes.ticket, max_per_user, rl_window)
    /\ AtMost(r_passes.temp, 1, tc_cooldown)

(***************************************************************************)
(* The periodic tasks: properties                                          *)
(***************************************************************************)

\* C31: neither the ledger cleanup nor the emptiness scan runs concurrently
\* with itself: at most one iteration body of each is in progress in every
\* state, and a body starts only when none is in progress and the task is
\* back at its sleep (the previous body returned), never after the task was
\* cancelled or ended.
C31_NoIterationOverlapsItself ==
    /\ [](\A l \in Tasks : p_live[l] <= 1)
    /\ [][\A l \in Tasks :
            (p_live'[l] > p_live[l] \/ (p_done'[l] > p_done[l] /\ p_live'[l] = p_live[l]))
                => (p_live[l] = 0 /\ p_pc[l] = "sleeping")]_vars

\* a second scan iteration runs, and a period has elapsed during its body
C31_Witness ==
    /\ p_pc["scan"] = "running"
    /\ p_done["scan"] >= 1
    /\ p_missed["scan"] >= 1
    /\ p_done["cleanup"] >= 1

(***************************************************************************)
(* Ticket creation: properties                                             *)
(***************************************************************************)

\* C32: in every state, whatever the interleaving of the presses of the
\* ticket-creation button, the user has at most max_tickets_per_user (3)
\* entries in active_tickets.
C32_AtMostMaxTicketsPerUser == c_active <= max_tickets_per_user

(***************************************************************************)
(* Tickets: closing once                                                   *)
(***************************************************************************)

\* C33: each ticket is closed at most once: whatever the Confirm presses
\* (several views, a repeated press during the closing delay),
\* tickets_closed counts a ticket at most once, at most one ticket_closed
\* audit event is emitted for it, and tickets_closed never exceeds
\* total_tickets.
C33_ClosedAtMostOnce ==
    /\ \A t \in Tickets : Count(k_audit, t) <= 1
    /\ kstats.tickets_closed <= Cardinality(Tickets)
    /\ kstats.tickets_closed <= kstats.total_tickets

(***************************************************************************)
(* Tickets: claiming                                                       *)
(***************************************************************************)

Claimed(t) == t \in DOMAIN active_tickets /\ active_tickets[t].claimed_by # NoActor

\* C34: claimed_by is write-once and privileged: it is set only by an actor
\* with manage_channels or administrator, and once it is set no claim
\* attempt, by anyone and in any interleaving, changes claimed_by or
\* claimed_at for as long as the ticket is there.
C34_ClaimIsWriteOnceAndPrivileged ==
    [][\A t \in Tickets :
          (t \in DOMAIN active_tickets /\ t \in DOMAIN active_tickets')
          => /\ Claimed(t) =>
                  /\ active_tickets'[t].claimed_by = active_tickets[t].claimed_by
                  /\ active_tickets'[t].claimed_at = active_tickets[t].claimed_at
             /\ (~Claimed(t) /\ active_tickets'[t] # active_tickets[t]) =>
                  /\ active_tickets'[t].claimed_by \in Privileged
                  /\ active_tickets'[t].claimed_at = k_now
                  /\ active_tickets'[t].user_id = active_tickets[t].user_id
      ]_vars

\* a privileged actor claimed a ticket after the start, time has passed
\* since and the ticket is still there
C34_Witness ==
    /\ \E t \in Tickets :
          /\ Claimed(t)
          /\ active_tickets[t].claimed_by \in Privileged
          /\ active_tickets[t].claimed_at > Secs(Epoch)
          /\ k_now > active_tickets[t].claimed_at

(***************************************************************************)
(* Temporary voice channels: registration                                  *)
(***************************************************************************)

\* the invocation that created channel c still stands before its
\* "self.temp_channels[temp_channel.id] = member.id"
BeingRegistered(c) ==
    \E i \in 1..MaxListeners : v_frames[i].pc = "moving" /\ v_frames[i].chan = c

\* C35: every channel created on a join of the create-channel ends up in
\* temp_channels with its owner, whatever the outcome of the platform
\* calls after the creation: once its invocation is past the registration,
\* a created channel that still exists is registered to its creator.
C35_CreatedChannelsAreRegistered ==
    \A n \in 1..Len(v_created) :
        LET c == v_created[n]
        IN  (c.id \in v_exists /\ ~BeingRegistered(c.id))
                => (c.id \in DOMAIN temp_channels /\ temp_channels[c.id] = c.owner)

(***************************************************************************)
(* Temporary voice channels: the create-channels                           *)
(***************************************************************************)

\* a delete of channel c is awaited by the scan or by a listener
DeleteAwaited(c) ==
    \/ scan.pc = "deleting" /\ scan.cur = c
    \/ \E i \in 1..MaxListeners : v_frames[i].pc = "deleting" /\ v_frames[i].chan = c

\* C36: a create-channel is never reclaimed: neither the scan nor the
\* listener audits or deletes a channel whose id is in setup_channels, empty
\* or not, so it stays in the guild; and no id is in both setup_channels and
\* temp_channels.
C36_SetupChannelsAreNeverReclaimed ==
    /\ setup_channels \cap DOMAIN temp_channels = {}
    /\ \A c \in setup_channels :
          /\ c \in v_exists
          /\ Count(v_deletes, c) = 0
          /\ Count(v_audit, c) = 0
          /\ ~DeleteAwaited(c)

\* two create-channels stand empty while a channel created on a join has
\* been reclaimed
C36_Witness ==
    /\ Cardinality(setup_channels) = MaxSetups
    /\ \A c \in setup_channels : Occupants(c, v_loc) = {}
    /\ \E n \in 1..Len(v_created) : Count(v_deletes, v_created[n].id) >= 1
    /\ \E n \in 1..Len(v_created) : v_created[n].id \notin v_exists

(***************************************************************************)
(* Cached embeds: properties                                               *)
(***************************************************************************)

\* C37: the embed that send_loading_embed / send_success_embed /
\* send_error_embed hands on carries the title and the description of that
\* call, whatever calls came before: a cache hit never yields an embed
\* built for another (title, description) pair.
C37_SentEmbedCarriesTheCallsTexts ==
    e_sent.sent =>
        /\ e_sent.embed.kind = e_sent.kind
        /\ e_sent.embed.title = e_sent.title
        /\ e_sent.embed.description = e_sent.description

(***************************************************************************)
(* Reviews: properties                                                     *)
(***************************************************************************)

\* C38: a submission is decided at most once: its status moves only from
\* pending to approved or to declined, a decided submission keeps its
\* status and its reviewer whatever reactions follow, in any interleaving,
\* and it is posted to the approved channel at most once, and only if
\* approved.
C38_DecidedAtMostOnce ==
    /\ [](\A m \in 1..Len(s_subs) :
            /\ s_subs[m].posts <= 1
            /\ s_subs[m].posts = 1 => s_subs[m].status = "approved"
            /\ s_subs[m].status = "pending" <=> s_subs[m].reviewed_by = 0)
    /\ [][\A m \in 1..Len(s_subs) :
            /\ s_subs'[m].status # s_subs[m].status
                  => /\ s_subs[m].status = "pending"
                     /\ s_subs'[m].status \in {"approved", "declined"}
                     /\ s_subs'[m].reviewed_by \in Reviewers
            /\ s_subs[m].status # "pending"
                  => s_subs'[m].reviewed_by = s_subs[m].reviewed_by
      ]_vars

\* a reviewer's approval has been written and posted while its handler
\* still awaits the edit of the review message: the window in which a second
\* reviewer's reaction arrives
C38_Witness ==
    \E i \in 1..MaxReactionHandlers :
        /\ s_handlers[i].pc = "editing"
        /\ s_subs[s_handlers[i].msg].status = "approved"
        /\ s_subs[s_handlers[i].msg].posts = 1
        /\ s_subs[s_handlers[i].msg].reviewed_by \in Reviewers

\* C39: one-time use of /review: a user without the admin role whom no
\* admin unlisted has at most one submission recorded, whatever the
\* interleaving of the user's /review invocations with the tasks that record
\* the submission and mark the user.
C39_OneSubmissionPerUser ==
    \A u \in Submitters :
        Cardinality({m \in 1..Len(s_subs) : s_subs[m].user = u}) <= 1

(***************************************************************************)
(* YouTube notifications: properties                                       *)
(***************************************************************************)

\* the video the feed shows had a failed notification and none delivered,
\* and is still within its freshness window
OwedNotification ==
    /\ y_feed \in y_failed
    /\ y_announced[y_feed] = 0
    /\ y_feed \notin y_stale

\* C40: a video whose notification could not be sent is not lost: a later
\* poll that sees it as the feed's first entry, within its freshness
\* window, takes it for new again and sends the notification; and no video
\* is announced twice.
C40_FailedNotificationIsRetried ==
    /\ [](\A v \in Videos : y_announced[v] <= 1)
    /\ [][(y_polls' = y_polls + 1 /\ OwedNotification)
            => (y_poll'.pc = "sending" /\ y_poll'.video = y_feed)]_vars

====
